---- MODULE Spec2Model ----
(***************************************************************************)
(* A model of the migration engine of backend/main.py: the job store, the  *)
(* scheduler registration, the orchestrator perform_migration with its     *)
(* transport and metadata phases, and the string helpers it relies on.     *)
(* Text is modelled as sequences of one-character strings.                 *)
(***************************************************************************)
EXTENDS Integers, Sequences, FiniteSets, TLC

(***************************************************************************)
(* Text helpers (Python str semantics)                                     *)
(***************************************************************************)

\* text[i..] starts with pat
StartsAt(text, i, pat) ==
    /\ i + Len(pat) - 1 <= Len(text)
    /\ \A k \in 1..Len(pat) : text[i + k - 1] = pat[k]

\* pat in text
Contains(text, pat) ==
    \E i \in 1..(Len(text) + 1) : StartsAt(text, i, pat)

RECURSIVE ReplaceFrom(_, _, _, _)
ReplaceFrom(text, i, old, new) ==
    IF i > Len(text) THEN << >>
    ELSE IF StartsAt(text, i, old)
         THEN new \o ReplaceFrom(text, i + Len(old), old, new)
         ELSE << text[i] >> \o ReplaceFrom(text, i + 1, old, new)

\* text.replace(old, new) for a non-empty old: leftmost, non-overlapping
StrReplace(text, old, new) == ReplaceFrom(text, 1, old, new)

RECURSIVE LStrip(_, _)
LStrip(text, ch) ==
    IF text # << >> /\ Head(text) = ch THEN LStrip(Tail(text), ch) ELSE text

RECURSIVE RStrip(_, _)
RStrip(text, ch) ==
    IF text # << >> /\ text[Len(text)] = ch
    THEN RStrip(SubSeq(text, 1, Len(text) - 1), ch)
    ELSE text

\* text.strip(ch)
Strip(text, ch) == RStrip(LStrip(text, ch), ch)

EndsWith(text, suf) ==
    /\ Len(suf) <= Len(text)
    /\ SubSeq(text, Len(text) - Len(suf) + 1, Len(text)) = suf

\* index of the first occurrence of pat in text, 0 when absent
FindFirst(text, pat) ==
    IF Contains(text, pat)
    THEN CHOOSE i \in 1..(Len(text) + 1) :
            /\ StartsAt(text, i, pat)
            /\ \A k \in 1..(i - 1) : ~StartsAt(text, k, pat)
    ELSE 0

RECURSIVE SplitOn(_, _)
\* text.split(ch): a sequence of texts, never empty
SplitOn(text, ch) ==
    LET p == FindFirst(text, << ch >>)
    IN  IF p = 0 THEN << text >>
        ELSE << SubSeq(text, 1, p - 1) >> \o SplitOn(SubSeq(text, p + 1, Len(text)), ch)

HTTPS == << "h", "t", "t", "p", "s", ":", "/", "/" >>
HTTP == << "h", "t", "t", "p", ":", "/", "/" >>
SchemeSep == << ":", "/", "/" >>
DotGit == << ".", "g", "i", "t" >>
Stars == << "*", "*", "*" >>
OAuth2 == << "o", "a", "u", "t", "h", "2", ":" >>
GitFailedPrefix ==
    << "G", "i", "t", " ", "c", "o", "m", "m", "a", "n", "d", " ",
       "f", "a", "i", "l", "e", "d", ":", " " >>
RepositoryName == << "r", "e", "p", "o", "s", "i", "t", "o", "r", "y" >>

\* urllib.parse.quote(ch, safe="") for one character
QuoteChar(ch) ==
    CASE ch = "*" -> << "%", "2", "A" >>
      [] ch = ":" -> << "%", "3", "A" >>
      [] ch = "/" -> << "%", "2", "F" >>
      [] ch = "@" -> << "%", "4", "0" >>
      [] ch = " " -> << "%", "2", "0" >>
      [] ch = "%" -> << "%", "2", "5" >>
      [] OTHER -> << ch >>

RECURSIVE Quote(_)
Quote(text) ==
    IF text = << >> THEN << >> ELSE QuoteChar(Head(text)) \o Quote(Tail(text))

(***************************************************************************)
(* URL and credential shaping                                              *)
(***************************************************************************)

METADATA_SUPPORTED_PROVIDERS == { "github", "gitlab", "bitbucket" }

\* str.lower() on the provider names the model uses
Lower(provider) ==
    CASE provider = "GitHub" -> "github"
      [] provider = "GitLab" -> "gitlab"
      [] provider = "Bitbucket" -> "bitbucket"
      [] OTHER -> provider

\* the value standing for a raised ValueError
Raised == [ raised |-> TRUE ]

\* _normalize_repo_url: the parsed (netloc, path), or Raised
normalize_repo_url(url) ==
    LET stripped == Strip(url, " ")
        normalized == IF Contains(stripped, SchemeSep) THEN stripped ELSE HTTPS \o stripped
        p == FindFirst(normalized, SchemeSep)
        rest == SubSeq(normalized, p + 3, Len(normalized))
        slash == FindFirst(rest, << "/" >>)
        netloc == IF slash = 0 THEN rest ELSE SubSeq(rest, 1, slash - 1)
        path == IF slash = 0 THEN << >> ELSE SubSeq(rest, slash, Len(rest))
    IN  IF stripped = << >> THEN Raised
        ELSE IF netloc = << >> THEN Raised
        ELSE [ raised |-> FALSE, netloc |-> netloc, path |-> path ]

\* _repo_context: a RepoContext, or Raised
repo_context(provider, token, repo_url) ==
    LET parsed == normalize_repo_url(repo_url)
        stripped == Strip(parsed.path, "/")
        path == IF EndsWith(stripped, DotGit)
                THEN SubSeq(stripped, 1, Len(stripped) - 4)
                ELSE stripped
    IN  IF parsed.raised THEN Raised
        ELSE [ raised |-> FALSE, provider |-> Lower(provider), token |-> token,
               repo_url |-> repo_url, host |-> parsed.netloc, path |-> path ]

\* RepoContext.github_owner / github_repo / bitbucket_workspace /
\* bitbucket_repo_slug evaluate without raising
has_owner_and_repo(context) == Len(SplitOn(context.path, "/")) >= 2

\* RepoContext.gitlab_project_path evaluates without raising
has_project_path(context) == context.path # << >>

\* the path token the provider's REST URLs are built from is available
repo_path_ok(context) ==
    IF context.provider = "gitlab" THEN has_project_path(context)
    ELSE has_owner_and_repo(context)

get_auth_url(url, token, provider) ==
    LET clean_url == StrReplace(StrReplace(url, HTTPS, << >>), HTTP, << >>)
        colon == FindFirst(token, << ":" >>)
        username == SubSeq(token, 1, colon - 1)
        app_password == SubSeq(token, colon + 1, Len(token))
    IN  IF provider = "bitbucket" /\ colon # 0
        THEN HTTPS \o Quote(username) \o << ":" >> \o Quote(app_password)
                   \o << "@" >> \o clean_url
        ELSE IF provider = "gitlab"
        THEN HTTPS \o OAuth2 \o Quote(token) \o << "@" >> \o clean_url
        ELSE HTTPS \o Quote(token) \o << "@" >> \o clean_url

\* _redact_sensitive(text, req)
redact_one(text, secret) ==
    IF secret # << >> THEN StrReplace(text, secret, Stars) ELSE text

redact_sensitive(text, req) ==
    redact_one(redact_one(text, req.source_token), req.dest_token)

\* a variant that looks at the source provider alone
metadata_supported_source_only(src, dst) ==
    src.provider \in METADATA_SUPPORTED_PROVIDERS

metadata_supported(src, dst) ==
    /\ src.provider \in METADATA_SUPPORTED_PROVIDERS
    /\ dst.provider \in METADATA_SUPPORTED_PROVIDERS

\* perform_migration's repo_name and temp_dir
repo_name_of(req) ==
    LET parts == SplitOn(RStrip(req.source_repo_url, "/"), "/")
        name == StrReplace(parts[Len(parts)], DotGit, << >>)
    IN  IF name = << >> THEN RepositoryName ELSE name

\* a variant that names the directory after the repository alone
temp_dir_without_job_id(job_id, req) == << "", repo_name_of(req) >>

temp_dir_of(job_id, req) == << job_id, repo_name_of(req) >>

(***************************************************************************)
(* Provider REST adapters and the metadata normaliser                      *)
(***************************************************************************)

BitbucketOrg == << "b", "i", "t", "b", "u", "c", "k", "e", "t", ".", "o", "r", "g" >>
WwwBitbucketOrg == << "w", "w", "w", "." >> \o BitbucketOrg

\* a JSON null, and a key that the payload does not carry
Null == "null"
Absent == "absent"

\* _provider_api_base returns a base URL (FALSE: it raises ValueError)
provider_api_base_ok(context) ==
    CASE context.provider = "github" -> TRUE
      [] context.provider = "gitlab" -> TRUE
      [] context.provider = "bitbucket" -> context.host \in { BitbucketOrg, WwwBitbucketOrg }
      [] OTHER -> FALSE

\* the adapter can build its request URL: api base and repo path token
adapter_url_ok(context) == provider_api_base_ok(context) /\ repo_path_ok(context)

\* str.replace("opened", "open") on the state names GitLab uses
replace_opened(state) ==
    CASE state = "opened" -> "open"
      [] state = "reopened" -> "reopen"
      [] OTHER -> state

\* _normalize_issue_from_source: the fields the counters depend on, or Raised
\* (github iterates labels, gitlab calls .replace on state, bitbucket calls
\* .get on content: each raises on a JSON null)
normalize_issue_from_source(provider, issue) ==
    CASE provider = "github" ->
            IF issue.labels = Null THEN Raised
            ELSE [ raised |-> FALSE,
                   state |-> IF issue.state = Absent THEN "open" ELSE issue.state ]
      [] provider = "gitlab" ->
            IF issue.state = Null THEN Raised
            ELSE [ raised |-> FALSE,
                   state |-> replace_opened(IF issue.state = Absent THEN "opened"
                                            ELSE issue.state) ]
      [] provider = "bitbucket" ->
            IF issue.content = Null THEN Raised
            ELSE [ raised |-> FALSE,
                   state |-> IF issue.state \in { "resolved", "closed" }
                             THEN "closed" ELSE "open" ]
      [] OTHER -> Raised

\* _normalize_pr_from_source: branches and state, or Raised (a null head/base
\* or source/destination object makes the chained .get raise; gitlab reads
\* the branches from the top level). Branch names are atomic strings.
normalize_pr_from_source(provider, pr) ==
    LET branch(b) == IF b = Absent THEN "" ELSE b
    IN  CASE provider = "github" ->
                IF pr.source_branch = Null \/ pr.target_branch = Null THEN Raised
                ELSE [ raised |-> FALSE,
                       source_branch |-> branch(pr.source_branch),
                       target_branch |-> branch(pr.target_branch),
                       state |-> IF pr.state = Absent THEN "open" ELSE pr.state ]
          [] provider = "gitlab" ->
                [ raised |-> FALSE,
                  source_branch |-> branch(pr.source_branch),
                  target_branch |-> branch(pr.target_branch),
                  state |-> IF pr.state = "closed" THEN "closed" ELSE "open" ]
          [] provider = "bitbucket" ->
                IF pr.source_branch = Null \/ pr.target_branch = Null THEN Raised
                ELSE [ raised |-> FALSE,
                       source_branch |-> branch(pr.source_branch),
                       target_branch |-> branch(pr.target_branch),
                       state |-> IF pr.state \in { "DECLINED", "SUPERSEDED" }
                                 THEN "closed" ELSE "open" ]
          [] OTHER -> Raised

\* str.strip() with no argument removes leading and trailing whitespace
Whitespace == { " ", "\t" }

RECURSIVE lstrip(_)
lstrip(text) ==
    IF text # << >> /\ Head(text) \in Whitespace THEN lstrip(Tail(text)) ELSE text

RECURSIVE rstrip(_)
rstrip(text) ==
    IF text # << >> /\ text[Len(text)] \in Whitespace
    THEN rstrip(SubSeq(text, 1, Len(text) - 1))
    ELSE text

strip(text) == rstrip(lstrip(text))

\* a variant of the membership test that never finds the branch
never_seen(branch, seen) == FALSE

\* branch in seen
already_seen(branch, seen) == branch \in seen

RECURSIVE clean_from(_, _, _, _)
\* the for loop of MigrationActions.normalize_branches from item i on
clean_from(value, i, cleaned, seen) ==
    IF i > Len(value) THEN cleaned
    ELSE LET item == value[i]
         IN  IF item.type # "str" THEN clean_from(value, i + 1, cleaned, seen)
             ELSE LET branch == strip(item.text)
                  IN  IF branch = << >> \/ already_seen(branch, seen)
                      THEN clean_from(value, i + 1, cleaned, seen)
                      ELSE clean_from(value, i + 1, Append(cleaned, branch),
                                      seen \cup { branch })

\* MigrationActions.normalize_branches on a list
normalize_branches(value) == clean_from(value, 1, << >>, { })

\* JSON values whose Python type matters to the normalisers: a str, a dict
\* (a record that carries type "dict"), a list, and the str that
\* ",".join(items) builds
PyStr(text) == [ type |-> "str", text |-> text ]
PyList(items) == [ type |-> "list", items |-> items ]
Joined(items) == [ type |-> "str", joined |-> items ]
EmptyDict == [ type |-> "dict" ]

\* dict.get(key, default)
Get(dict, key, default) == IF key \in DOMAIN dict THEN dict[key] ELSE default

\* the json_body of _create_github_issue, _create_gitlab_issue and
\* _create_bitbucket_issue for a normalized issue
github_issue_body(issue) ==
    [ title |-> Get(issue, "title", "Untitled issue"),
      body |-> Get(issue, "description", ""),
      labels |-> Get(issue, "labels", PyList(<< >>)) ]

gitlab_issue_body(issue) ==
    [ title |-> Get(issue, "title", "Untitled issue"),
      description |-> Get(issue, "description", ""),
      labels |-> Joined(Get(issue, "labels", PyList(<< >>)).items) ]

bitbucket_issue_body(issue) ==
    [ title |-> Get(issue, "title", "Untitled issue"),
      content |-> [ type |-> "dict", raw |-> Get(issue, "description", "") ] ]

\* the json_body of _create_github_pr, _create_gitlab_mr and
\* _create_bitbucket_pr for a normalized pull request
github_pr_body(pr) ==
    [ title |-> Get(pr, "title", "Untitled PR"),
      body |-> Get(pr, "description", ""),
      head |-> PyStr(pr.source_branch),
      base |-> PyStr(pr.target_branch),
      draft |-> Get(pr, "draft", FALSE) ]

\* a variant that sends the branches the wrong way round
gitlab_mr_body_swapped(pr) ==
    [ title |-> Get(pr, "title", "Untitled MR"),
      description |-> Get(pr, "description", ""),
      source_branch |-> pr.target_branch,
      target_branch |-> pr.source_branch ]

gitlab_mr_body(pr) ==
    [ title |-> Get(pr, "title", "Untitled MR"),
      description |-> Get(pr, "description", ""),
      source_branch |-> pr.source_branch,
      target_branch |-> pr.target_branch ]

bitbucket_pr_body(pr) ==
    [ title |-> Get(pr, "title", "Untitled PR"),
      description |-> Get(pr, "description", ""),
      source |-> [ type |-> "dict",
                   branch |-> [ type |-> "dict", name |-> pr.source_branch ] ],
      destination |-> [ type |-> "dict",
                        branch |-> [ type |-> "dict", name |-> pr.target_branch ] ] ]

\* the names of the labels that are dicts with a name (github's list
\* comprehension)
RECURSIVE LabelNames(_)
LabelNames(items) ==
    IF items = << >> THEN << >>
    ELSE LET label == Head(items)
         IN  IF label.type = "dict" /\ Get(label, "name", "") # ""
             THEN << PyStr(label.name) >> \o LabelNames(Tail(items))
             ELSE LabelNames(Tail(items))

\* _normalize_issue_from_source, field by field, on a payload given as a
\* dict
normalize_issue_fields(provider, issue) ==
    CASE provider = "github" ->
            [ raised |-> FALSE,
              title |-> Get(issue, "title", "Untitled issue"),
              description |-> Get(issue, "body", ""),
              state |-> Get(issue, "state", "open"),
              labels |-> PyList(LabelNames(Get(issue, "labels", PyList(<< >>)).items)) ]
      [] provider = "gitlab" ->
            [ raised |-> FALSE,
              title |-> Get(issue, "title", "Untitled issue"),
              description |-> Get(issue, "description", ""),
              state |-> replace_opened(Get(issue, "state", "opened")),
              labels |-> Get(issue, "labels", PyList(<< >>)) ]
      [] provider = "bitbucket" ->
            [ raised |-> FALSE,
              title |-> Get(issue, "title", "Untitled issue"),
              description |-> Get(Get(issue, "content", EmptyDict), "raw", ""),
              state |-> IF Get(issue, "state", "") \in { "resolved", "closed" }
                        THEN "closed" ELSE "open",
              labels |-> PyList(<< >>) ]
      [] OTHER -> Raised

\* _normalize_pr_from_source, field by field: .get on a value that is not
\* a dict raises
normalize_pr_fields(provider, pr) ==
    CASE provider = "github" ->
            LET head == Get(pr, "head", EmptyDict)
                base == Get(pr, "base", EmptyDict)
            IN  IF head.type # "dict" \/ base.type # "dict" THEN Raised
                ELSE [ raised |-> FALSE,
                       title |-> Get(pr, "title", "Untitled PR"),
                       description |-> Get(pr, "body", ""),
                       source_branch |-> Get(head, "ref", ""),
                       target_branch |-> Get(base, "ref", ""),
                       state |-> Get(pr, "state", "open"),
                       draft |-> Get(pr, "draft", FALSE) ]
      [] provider = "gitlab" ->
            [ raised |-> FALSE,
              title |-> Get(pr, "title", "Untitled MR"),
              description |-> Get(pr, "description", ""),
              source_branch |-> Get(pr, "source_branch", ""),
              target_branch |-> Get(pr, "target_branch", ""),
              state |-> IF Get(pr, "state", "") = "closed" THEN "closed" ELSE "open",
              draft |-> FALSE ]
      [] provider = "bitbucket" ->
            LET source == Get(pr, "source", EmptyDict)
                destination == Get(pr, "destination", EmptyDict)
            IN  IF source.type # "dict" \/ destination.type # "dict" THEN Raised
                ELSE [ raised |-> FALSE,
                       title |-> Get(pr, "title", "Untitled PR"),
                       description |-> Get(pr, "description", ""),
                       source_branch |-> Get(Get(source, "branch", EmptyDict), "name", ""),
                       target_branch |-> Get(Get(destination, "branch", EmptyDict), "name", ""),
                       state |-> IF Get(pr, "state", "OPEN") \in { "DECLINED", "SUPERSEDED" }
                                 THEN "closed" ELSE "open",
                       draft |-> FALSE ]
      [] OTHER -> Raised

\* the payload the create function of a provider sends for a normalized item
create_body(provider, kind, item) ==
    CASE kind = "issue" /\ provider = "github" -> github_issue_body(item)
      [] kind = "issue" /\ provider = "gitlab" -> gitlab_issue_body(item)
      [] kind = "issue" /\ provider = "bitbucket" -> bitbucket_issue_body(item)
      [] kind = "pr" /\ provider = "github" -> github_pr_body(item)
      [] kind = "pr" /\ provider = "gitlab" -> gitlab_mr_body(item)
      [] kind = "pr" /\ provider = "bitbucket" -> bitbucket_pr_body(item)

\* _request_json raises on an HTTP status >= 400 and on a network failure
request_json_raises(outcome) == outcome # "ok"

\* _request_raw returns the response whatever its status: only a network
\* failure raises
request_raw_raises(outcome) == outcome = "network_error"

\* the close call of the create functions: _request_json everywhere except
\* _create_bitbucket_pr, which declines through _request_raw
close_raises(provider, kind, outcome) ==
    IF provider = "bitbucket" /\ kind = "pr"
    THEN request_raw_raises(outcome)
    ELSE request_json_raises(outcome)

\* _create_github_issue, _create_gitlab_issue, _create_bitbucket_issue,
\* _create_github_pr, _create_gitlab_mr, _create_bitbucket_pr: the REST calls
\* issued and whether the function raises. outcome.create and outcome.close
\* are the provider's answers to the create and to the close call.
create_item(destination, kind, item, outcome) ==
    IF ~adapter_url_ok(destination)
    THEN [ raised |-> TRUE, calls |-> << >> ]
    ELSE IF request_json_raises(outcome.create)
    THEN [ raised |-> TRUE, calls |-> << "create" >> ]
    ELSE IF item.state = "closed"
    THEN [ raised |-> close_raises(destination.provider, kind, outcome.close),
           calls |-> << "create", "close" >> ]
    ELSE [ raised |-> FALSE, calls |-> << "create" >> ]

\* a variant that reads the close target from "id" for every provider
close_key_id(provider) == "id"

\* the key of the create answer that the close call is addressed to:
\* created['number'], created['iid'], created['id']
close_key(provider) ==
    CASE provider = "github" -> "number"
      [] provider = "gitlab" -> "iid"
      [] provider = "bitbucket" -> "id"

\* the create request of the six create functions
create_call(provider, kind) ==
    [ call |-> "create", method |-> "POST", target |-> Null, via |-> "_request_json" ]

\* the close request of the six create functions, addressed to a created
\* item
close_call(provider, kind, target) ==
    CASE provider = "github" ->
            [ call |-> "close", method |-> "PATCH", target |-> target,
              via |-> "_request_json" ]
      [] provider = "gitlab" ->
            [ call |-> "close", method |-> "PUT", target |-> target,
              via |-> "_request_json" ]
      [] provider = "bitbucket" /\ kind = "issue" ->
            [ call |-> "close", method |-> "PUT", target |-> target,
              via |-> "_request_json" ]
      [] provider = "bitbucket" /\ kind = "pr" ->
            [ call |-> "close", method |-> "POST", target |-> target,
              via |-> "_request_raw" ]

\* the six create functions request by request: the URL is built, the
\* create request is issued, and for a closed item the close request is
\* addressed to the identifier of the create answer (a KeyError when the
\* answer does not carry it). answer.create and answer.close are the
\* provider's answers, answer.created the JSON body of the create answer.
create_then_close(destination, kind, item, answer) ==
    IF ~adapter_url_ok(destination)
    THEN [ raised |-> TRUE, calls |-> << >> ]
    ELSE IF request_json_raises(answer.create)
    THEN [ raised |-> TRUE, calls |-> << create_call(destination.provider, kind) >> ]
    ELSE IF Get(item, "state", Null) # "closed"
    THEN [ raised |-> FALSE, calls |-> << create_call(destination.provider, kind) >> ]
    ELSE IF close_key(destination.provider) \notin DOMAIN answer.created
    THEN [ raised |-> TRUE, calls |-> << create_call(destination.provider, kind) >> ]
    ELSE [ raised |-> close_raises(destination.provider, kind, answer.close),
           calls |-> << create_call(destination.provider, kind),
                        close_call(destination.provider, kind,
                                   answer.created[close_key(destination.provider)]) >> ]

\* _bitbucket_paginated_get(..., max_pages: int = 10)
max_pages == 10

\* for page in range(1, 11)
range_stop == 11

\* a variant of the loop condition without the page cap
more_pages_while_next(next_url, page) == next_url

\* while next_url and page < max_pages
more_pages(next_url, page) == next_url /\ page < max_pages

\* the provider's answer to the request for a page: it serves full_pages
\* full pages (pages that carry a next cursor) and then answers with
\* provider.then: "partial" (a short or last page), "empty" or "error"
PageAnswer(provider, page) ==
    IF page <= provider.full_pages THEN "full" ELSE provider.then

RECURSIVE list_by_page(_, _, _)
\* the page loop of _list_github_issues, _list_github_prs,
\* _list_github_users, _list_gitlab_issues, _list_gitlab_mrs and
\* _list_gitlab_users from a page on: the requests issued, whether
\* _request_json raised
list_by_page(provider, page, requests) ==
    IF page >= range_stop THEN [ requests |-> requests, raised |-> FALSE ]
    ELSE LET answer == PageAnswer(provider, page)
         IN  IF request_json_raises(IF answer = "error" THEN "http_error" ELSE "ok")
             THEN [ requests |-> requests + 1, raised |-> TRUE ]
             ELSE IF answer \in { "empty", "partial" }
             THEN [ requests |-> requests + 1, raised |-> FALSE ]
             ELSE list_by_page(provider, page + 1, requests + 1)

RECURSIVE bitbucket_paginated_get(_, _, _)
\* the while loop of _bitbucket_paginated_get: page counts the requests
\* issued, next_url tells whether the last payload carried a next cursor
bitbucket_paginated_get(provider, page, next_url) ==
    IF ~more_pages(next_url, page) THEN [ requests |-> page, raised |-> FALSE ]
    ELSE LET answer == PageAnswer(provider, page + 1)
         IN  IF request_json_raises(IF answer = "error" THEN "http_error" ELSE "ok")
             THEN [ requests |-> page + 1, raised |-> TRUE ]
             ELSE bitbucket_paginated_get(provider, page + 1, answer = "full")

\* the listing functions (_list_github_issues, _list_gitlab_issues,
\* _list_bitbucket_issues and the PR ones): the URL is built first, then the
\* GET is issued; listing.status is the provider's answer
list_items(source, listing) ==
    IF ~adapter_url_ok(source)
    THEN [ raised |-> TRUE, error |-> "ValueError", items |-> << >>, calls |-> << >> ]
    ELSE IF request_json_raises(listing.status)
    THEN [ raised |-> TRUE, error |-> "RuntimeError", items |-> << >>,
           calls |-> << "list" >> ]
    ELSE [ raised |-> FALSE, error |-> Null, items |-> listing.items,
           calls |-> << "list" >> ]

RECURSIVE issue_loop(_, _, _, _, _, _)
\* the for loop of migrate_issues from item i on: normalisation is outside
\* the try, the create call inside it
issue_loop(source, destination, items, outcomes, i, acc) ==
    IF i > Len(items) THEN acc
    ELSE LET normalized == normalize_issue_from_source(source.provider, items[i])
             made == create_item(destination, "issue", normalized, outcomes[i])
         IN  IF normalized.raised
             THEN [ acc EXCEPT !.raised = TRUE ]
             ELSE issue_loop(source, destination, items, outcomes, i + 1,
                    [ acc EXCEPT !.created = IF made.raised THEN @ ELSE @ + 1,
                                 !.failed = IF made.raised THEN @ + 1 ELSE @,
                                 !.attempted = @ + 1,
                                 !.calls = @ \o made.calls ])

UnsupportedMessage(source, destination) ==
    [ status |-> "unsupported",
      message |-> << source.provider, destination.provider >> ]

\* migrate_issues: [raised, result, calls]; attempted counts the items whose
\* create function was entered
migrate_issues(source, destination, listing, outcomes) ==
    LET listed == list_items(source, listing)
        acc0 == [ raised |-> FALSE, created |-> 0, skipped |-> 0, failed |-> 0,
                  attempted |-> 0, calls |-> listed.calls ]
        acc == issue_loop(source, destination, listed.items, outcomes, 1, acc0)
    IN  IF ~metadata_supported(source, destination)
        THEN [ raised |-> FALSE, error |-> Null, attempted |-> 0, calls |-> << >>,
               result |-> UnsupportedMessage(source, destination) ]
        ELSE IF listed.raised
        THEN [ raised |-> TRUE, error |-> listed.error, attempted |-> 0,
               calls |-> listed.calls, result |-> Null ]
        ELSE IF acc.raised
        THEN [ raised |-> TRUE, error |-> "TypeError", attempted |-> acc.attempted,
               calls |-> acc.calls, result |-> Null ]
        ELSE [ raised |-> FALSE, error |-> Null, attempted |-> acc.attempted,
               calls |-> acc.calls,
               result |-> [ status |-> "completed",
                            source_count |-> Len(listed.items),
                            created |-> acc.created,
                            failed |-> acc.failed ] ]

\* a variant that takes only the empty string for an empty branch
Falsy_empty_string_only(value) == value = ""

\* Python's "not value" on a branch field: an empty name or None
Falsy(value) == value = "" \/ value = Null

RECURSIVE pr_loop(_, _, _, _, _, _)
\* the for loop of migrate_pull_requests from item i on
pr_loop(source, destination, items, outcomes, i, acc) ==
    IF i > Len(items) THEN acc
    ELSE LET normalized == normalize_pr_from_source(source.provider, items[i])
             made == create_item(destination, "pr", normalized, outcomes[i])
         IN  IF normalized.raised
             THEN [ acc EXCEPT !.raised = TRUE ]
             ELSE IF Falsy(normalized.source_branch) \/ Falsy(normalized.target_branch)
             THEN pr_loop(source, destination, items, outcomes, i + 1,
                    [ acc EXCEPT !.skipped = @ + 1 ])
             ELSE pr_loop(source, destination, items, outcomes, i + 1,
                    [ acc EXCEPT !.created = IF made.raised THEN @ ELSE @ + 1,
                                 !.failed = IF made.raised THEN @ + 1 ELSE @,
                                 !.attempted = @ + 1,
                                 !.calls = @ \o made.calls ])

\* migrate_pull_requests: [raised, result, calls]
migrate_pull_requests(source, destination, listing, outcomes) ==
    LET listed == list_items(source, listing)
        acc0 == [ raised |-> FALSE, created |-> 0, skipped |-> 0, failed |-> 0,
                  attempted |-> 0, calls |-> listed.calls ]
        acc == pr_loop(source, destination, listed.items, outcomes, 1, acc0)
    IN  IF ~metadata_supported(source, destination)
        THEN [ raised |-> FALSE, error |-> Null, attempted |-> 0, calls |-> << >>,
               result |-> UnsupportedMessage(source, destination) ]
        ELSE IF listed.raised
        THEN [ raised |-> TRUE, error |-> listed.error, attempted |-> 0,
               calls |-> listed.calls, result |-> Null ]
        ELSE IF acc.raised
        THEN [ raised |-> TRUE, error |-> "TypeError", attempted |-> acc.attempted,
               calls |-> acc.calls, result |-> Null ]
        ELSE [ raised |-> FALSE, error |-> Null, attempted |-> acc.attempted,
               calls |-> acc.calls,
               result |-> [ status |-> "completed",
                            source_count |-> Len(listed.items),
                            created |-> acc.created,
                            skipped |-> acc.skipped,
                            failed |-> acc.failed ] ]

SAMPLE_SIZE == 20

\* a variant that keeps the whole list
TakeAll(seq, n) == seq

\* seq[:n]
Take(seq, n) == SubSeq(seq, 1, IF Len(seq) < n THEN Len(seq) ELSE n)

Repeat4(call) == << call, call, call, call >>

\* _list_github_users, _list_gitlab_users, _list_bitbucket_users: usernames
\* are numbered in sort order, listing.users is sorted and duplicate free.
\* The bitbucket listing composes four sub-fetches whose failures (a URL
\* that cannot be built included) are swallowed.
list_users(context, listing) ==
    IF context.provider = "bitbucket"
    THEN IF ~provider_api_base_ok(context)
         THEN [ raised |-> TRUE, error |-> "ValueError", users |-> << >>, calls |-> << >> ]
         ELSE IF ~repo_path_ok(context)
         THEN [ raised |-> FALSE, error |-> Null, users |-> << >>, calls |-> << >> ]
         ELSE [ raised |-> FALSE, error |-> Null,
                users |-> IF listing.status = "ok" THEN listing.users ELSE << >>,
                calls |-> Repeat4("list") ]
    ELSE IF ~adapter_url_ok(context)
    THEN [ raised |-> TRUE, error |-> "ValueError", users |-> << >>, calls |-> << >> ]
    ELSE IF request_json_raises(listing.status)
    THEN [ raised |-> TRUE, error |-> "RuntimeError", users |-> << >>,
           calls |-> << "list" >> ]
    ELSE [ raised |-> FALSE, error |-> Null, users |-> listing.users,
           calls |-> << "list" >> ]

RECURSIVE user_loop(_, _, _, _, _, _)
\* the for loop of migrate_users from user i on; known is the destination
\* user set when the destination is bitbucket, checks the destination's
\* answers to _user_exists_on_destination otherwise
user_loop(destination, users, known, checks, i, acc) ==
    IF i > Len(users) THEN acc
    ELSE LET username == users[i]
             exists == IF destination.provider = "bitbucket"
                       THEN username \in known
                       ELSE checks[username] = "exists"
             called == IF destination.provider = "bitbucket" THEN << >> ELSE << "check" >>
         IN  user_loop(destination, users, known, checks, i + 1,
                [ acc EXCEPT !.mapped = IF exists THEN Append(@, username) ELSE @,
                             !.unmapped = IF exists THEN @ ELSE Append(@, username),
                             !.calls = @ \o called ])

\* migrate_users: [raised, result, calls]
migrate_users(source, destination, listing, dest_listing, checks) ==
    LET listed == list_users(source, listing)
        dest_listed == list_users(destination, dest_listing)
        known == { dest_listed.users[k] : k \in 1..Len(dest_listed.users) }
        dest_calls == IF destination.provider = "bitbucket" THEN dest_listed.calls ELSE << >>
        acc0 == [ mapped |-> << >>, unmapped |-> << >>, calls |-> listed.calls \o dest_calls ]
        acc == user_loop(destination, listed.users, known, checks, 1, acc0)
    IN  IF ~metadata_supported(source, destination)
        THEN [ raised |-> FALSE, error |-> Null, calls |-> << >>,
               result |-> UnsupportedMessage(source, destination) ]
        ELSE IF listed.raised
        THEN [ raised |-> TRUE, error |-> listed.error, calls |-> listed.calls,
               result |-> Null ]
        ELSE IF destination.provider = "bitbucket" /\ dest_listed.raised
        THEN [ raised |-> TRUE, error |-> dest_listed.error, calls |-> listed.calls,
               result |-> Null ]
        ELSE [ raised |-> FALSE, error |-> Null, calls |-> acc.calls,
               result |-> [ status |-> "completed",
                            source_count |-> Len(listed.users),
                            mapped_count |-> Len(acc.mapped),
                            unmapped_count |-> Len(acc.unmapped),
                            mapped_sample |-> Take(acc.mapped, SAMPLE_SIZE),
                            unmapped_sample |-> Take(acc.unmapped, SAMPLE_SIZE) ] ]

(***************************************************************************)
(* Inputs: requests, provider payloads and the providers' answers          *)
(***************************************************************************)

\* "https://h/o/r.git"
UrlGit == << "h", "t", "t", "p", "s", ":", "/", "/", "h", "/", "o", "/", "r", ".", "g", "i", "t" >>
\* "bitbucket.org/w/s"
UrlBitbucket == << "b", "i", "t", "b", "u", "c", "k", "e", "t", ".", "o", "r", "g", "/", "w", "/", "s" >>
\* "https://h/r": one path segment
UrlOneSegment == << "h", "t", "t", "p", "s", ":", "/", "/", "h", "/", "r" >>
\* "": _normalize_repo_url raises
UrlEmpty == << >>

TokenSource == << "s", "k" >>
TokenDest == << "d", "k" >>
TokenBitbucket == << "u", ":", "p" >>
TokenGit == << "G", "i", "t" >>
TokenStar == << "*" >>
\* "p@s": a token with a character that urllib.parse.quote escapes
TokenReserved == << "p", "@", "s" >>
\* "x:p@s": a user:pass token whose password has such a character
TokenBitbucketReserved == << "x", ":", "p", "@", "s" >>

\* text the git tool and the providers put into their error output
ExternalTexts == { << "*", "e" >> }

\* str(GitCommandError): the command line, which carries the URL, or the
\* tool's stderr
git_messages(url) == { << "g", " " >> \o url } \cup ExternalTexts

\* str(exc) of the other exceptions: the ValueError of a repository path
\* that cannot be split names the raw URL, the RuntimeError of _request_json
\* carries the response snippet, a TypeError/AttributeError names no input
other_messages(error, context) ==
    CASE error = "ValueError" -> { << "v", " " >> \o context.repo_url }
      [] error = "RuntimeError" -> { << "r", " " >> \o t : t \in ExternalTexts }
      [] OTHER -> { << "t" >> }

MigrationActions(repo, branches, specific, tags, issues, prs, users) ==
    [ migrate_repo |-> repo, migrate_branches |-> branches,
      specific_branches |-> specific, migrate_tags |-> tags,
      migrate_issues |-> issues, migrate_prs |-> prs, migrate_users |-> users ]

MigrationRequest(stype, stoken, surl, dtype, dtoken, durl, actions) ==
    [ source_type |-> stype, source_token |-> stoken, source_repo_url |-> surl,
      dest_type |-> dtype, dest_token |-> dtoken, dest_repo_url |-> durl,
      actions |-> actions ]

\* bounds: items listed by one metadata action of a job, users listed, runs
\* of a periodic job, and items of a batch handed to a metadata function
MaxItems == 1
MaxUsers == 1
MaxFires == 2
MaxBatch == 2
\* full pages a provider serves before it stops
MaxBranches == 3
MaxListed == 22
MaxFullPages == 12

\* sequences over S of length at most n
RECURSIVE SeqsUpTo(_, _)
SeqsUpTo(S, n) ==
    IF n = 0 THEN { << >> }
    ELSE LET shorter == SeqsUpTo(S, n - 1)
         IN  shorter \cup { Append(q, x) : q \in shorter, x \in S }

\* issue payloads: the fields the normalisers read
IssueItems ==
    { [ state |-> "open", labels |-> "list", content |-> "object" ],
      [ state |-> "closed", labels |-> "list", content |-> "object" ],
      [ state |-> Null, labels |-> Null, content |-> Null ] }

\* pull request payloads: the branch fields hold a name, are missing
\* (Absent) or are null (Null: for github and bitbucket the parent object)
PrItems ==
    { [ state |-> "open", source_branch |-> "feat", target_branch |-> "main" ],
      [ state |-> "closed", source_branch |-> "feat", target_branch |-> "main" ],
      [ state |-> "DECLINED", source_branch |-> "feat", target_branch |-> "main" ],
      [ state |-> "open", source_branch |-> Absent, target_branch |-> "main" ],
      [ state |-> "open", source_branch |-> Null, target_branch |-> "main" ] }

\* the destination's answers to one item's create call and close call (no
\* close call follows a failed create)
Outcomes ==
    { o \in [ create : { "ok", "http_error" },
              close : { "ok", "http_error", "network_error" } ] :
        o.create = "ok" \/ o.close = "ok" }

\* a provider's answer to a listing: an error, or at most n items
Listings(items, n) ==
    { [ status |-> "http_error", items |-> << >> ] }
    \cup { [ status |-> "ok", items |-> q ] : q \in SeqsUpTo(items, n) }

\* sorted, duplicate-free username lists
UserLists(n) ==
    { q \in SeqsUpTo(1..n, n) : \A a, b \in 1..Len(q) : a < b => q[a] < q[b] }

UserListings(n) ==
    { [ status |-> "http_error", users |-> << >> ] }
    \cup { [ status |-> "ok", users |-> q ] : q \in UserLists(n) }

UserChecks(n) == [ 1..n -> { "exists", "absent", "raises" } ]

(***************************************************************************)
(* State                                                                   *)
(***************************************************************************)

VARIABLES
    migration_jobs,  \* the job store: job id -> [status, results, error]
    scheduler_jobs,  \* job id -> the minutes of its interval trigger
    args,            \* job id -> the MigrationRequest its invocations get
    fires,           \* job id -> invocations of perform_migration started
    pc,              \* invocation -> its position in perform_migration
    local,           \* invocation -> its locals
    exc,             \* invocation -> the exception in flight
    net,             \* invocation -> the network operations it issued
    ended,           \* invocation -> how it ended
    fs,              \* the temp directories that exist
    fn_in,           \* the arguments of a metadata function applied on its own
    fn_out,          \* what that application returned
    response         \* the HTTP response the API is producing

vars == << migration_jobs, scheduler_jobs, args, fires, pc, local, exc, net, ended, fs,
           fn_in, fn_out, response >>

\* the variables of the metadata functions applied on their own
fn_vars == << fn_in, fn_out >>

\* Python None, and a str
None == << >>
Str(text) == << text >>

ManualIds == { << "manual", "a" >> }
SchedIds == { << "sched", "a" >> }
JobIds == ManualIds \cup SchedIds

\* an invocation of perform_migration: the k-th one for its job id
Runs == JobIds \X (1..MaxFires)

NoLocal ==
    [ results |-> << >>, idx |-> 1, pushed |-> << >>, missing |-> << >>, wrote |-> "none",
      created |-> FALSE ]
NoExc == [ kind |-> "none", msg |-> << >>, at |-> "none" ]

\* how an invocation ended: the status it wrote last ("raised" when it left
\* by an exception without writing one) and what its rmtree call did
NotEnded == [ status |-> "none", rmtree |-> "not_called" ]
NotApplied == [ applied |-> FALSE ]

\* no request is being answered
NoResponse == [ kind |-> "none" ]

NetOp(op, what, calls) == [ op |-> op, what |-> what, calls |-> calls ]

InitJobs ==
    /\ migration_jobs = << >>
    /\ scheduler_jobs = << >>
    /\ args = << >>
    /\ fires = [ j \in JobIds |-> 0 ]
    /\ pc = [ r \in Runs |-> "none" ]
    /\ local = [ r \in Runs |-> NoLocal ]
    /\ exc = [ r \in Runs |-> NoExc ]
    /\ net = [ r \in Runs |-> << >> ]
    /\ ended = [ r \in Runs |-> NotEnded ]
    /\ fs = { }
    /\ response = NoResponse

Init ==
    /\ InitJobs
    /\ fn_in = NotApplied
    /\ fn_out = NotApplied

\* _update_job(job_id, **updates) on the store
update_job(jobs, job_id, updates) ==
    LET base == IF job_id \in DOMAIN jobs THEN jobs[job_id]
                ELSE [ status |-> "pending", results |-> << >>, error |-> None ]
        merged == [ k \in { "status", "results", "error" } |->
                      IF k \in DOMAIN updates THEN updates[k] ELSE base[k] ]
    IN  (job_id :> merged) @@ jobs

\* dict[key] = value
SetKey(dict, key, value) == (key :> value) @@ dict

\* the invocations of a job that have started and not ended
Running(job_id) == { r \in Runs : r[1] = job_id /\ pc[r] \notin { "none", "done" } }

(***************************************************************************)
(* API surface and scheduler                                               *)
(***************************************************************************)

\* POST /migrate: the background task runs perform_migration once
run_manual_sync(job_id, request) ==
    /\ job_id \in ManualIds
    /\ job_id \notin DOMAIN migration_jobs
    /\ migration_jobs' = update_job(migration_jobs, job_id,
            [ status |-> "pending", results |-> << >>, error |-> None ])
    /\ args' = (job_id :> request) @@ args
    /\ fires' = [ fires EXCEPT ![job_id] = 1 ]
    /\ pc' = [ pc EXCEPT ![<< job_id, 1 >>] = "start" ]
    /\ UNCHANGED << scheduler_jobs, local, exc, net, ended, fs, fn_vars, response >>

\* a variant that lets an interval of zero through
interval_accepted_from_zero(interval_minutes) == interval_minutes >= 0

\* interval_minutes: int = Query(..., ge=1)
interval_accepted(interval_minutes) == interval_minutes >= 1

\* POST /schedule?interval_minutes=...: the handler body runs for an
\* accepted interval only
run_scheduled_sync(job_id, request, interval_minutes) ==
    /\ job_id \in SchedIds
    /\ job_id \notin DOMAIN migration_jobs
    /\ interval_accepted(interval_minutes)
    /\ migration_jobs' = update_job(migration_jobs, job_id,
            [ status |-> "scheduled", results |-> << >>, error |-> None ])
    /\ scheduler_jobs' = (job_id :> interval_minutes) @@ scheduler_jobs
    /\ args' = (job_id :> request) @@ args
    /\ UNCHANGED << fires, pc, local, exc, net, ended, fs, fn_vars, response >>

\* scheduler.add_job(...) passes no max_instances: the scheduler's default
\* of one running instance per job applies
max_instances == 1

\* a variant whose executor accepts a run while another is still running
always_submit(job_id) == TRUE

\* a variant whose executor accepts a second running instance
submit_below_two(job_id) == Cardinality(Running(job_id)) < 2

\* the scheduler's executor accepts another run of the job
can_submit(job_id) == Cardinality(Running(job_id)) < max_instances

\* the interval elapses and the scheduler runs perform_migration
scheduler_fire(job_id) ==
    /\ job_id \in DOMAIN scheduler_jobs
    /\ can_submit(job_id)
    /\ fires[job_id] < MaxFires
    /\ fires' = [ fires EXCEPT ![job_id] = @ + 1 ]
    /\ pc' = [ pc EXCEPT ![<< job_id, fires[job_id] + 1 >>] = "start" ]
    /\ UNCHANGED << migration_jobs, scheduler_jobs, args, local, exc, net, ended, fs, fn_vars, response >>

\* POST /schedule with an interval that Query(ge=1) refuses: the framework
\* answers 422 and the handler body does not run
reject_scheduled_sync(interval_minutes) ==
    /\ ~interval_accepted(interval_minutes)
    /\ response = NoResponse
    /\ response' = [ kind |-> "rejected", interval_minutes |-> interval_minutes ]
    /\ UNCHANGED << migration_jobs, scheduler_jobs, args, fires, pc, local, exc, net,
                    ended, fs, fn_vars >>

\* the keys of a JobRecord in the order _update_job inserts them
RecordKeys == << "status", "results", "error" >>

\* GET /status/{job_id}: under the lock, migration_jobs.get(job_id, ...)
\* hands back the stored dict itself (ref names it; at_return is the record
\* as it was at that instant) or the literal for an unknown id
get_status(job_id) ==
    /\ response = NoResponse
    /\ response' = IF job_id \in DOMAIN migration_jobs
                   THEN [ kind |-> "record", ref |-> job_id,
                          at_return |-> migration_jobs[job_id], body |-> << >> ]
                   ELSE [ kind |-> "not_found", body |-> [ status |-> "not_found" ] ]
    /\ UNCHANGED << migration_jobs, scheduler_jobs, args, fires, pc, local, exc, net,
                    ended, fs, fn_vars >>

\* the value the handler returned, as its holder sees it: the stored dict
returned_value(resp) == migration_jobs[resp.ref]

\* the returned dict is encoded after the handler has released the lock,
\* key by key, while the other threads run
encode_response ==
    /\ response.kind = "record"
    /\ Cardinality(DOMAIN response.body) < Len(RecordKeys)
    /\ LET key == RecordKeys[Cardinality(DOMAIN response.body) + 1]
       IN  response' = [ response EXCEPT
                           !.body = SetKey(@, key, returned_value(response)[key]) ]
    /\ UNCHANGED << migration_jobs, scheduler_jobs, args, fires, pc, local, exc, net,
                    ended, fs, fn_vars >>

\* the body is complete
Encoded(resp) ==
    IF resp.kind = "record"
    THEN Cardinality(DOMAIN resp.body) = Len(RecordKeys)
    ELSE TRUE

\* the response leaves the server
send_response ==
    /\ response # NoResponse
    /\ Encoded(response)
    /\ response' = NoResponse
    /\ UNCHANGED << migration_jobs, scheduler_jobs, args, fires, pc, local, exc, net,
                    ended, fs, fn_vars >>

(***************************************************************************)
(* The orchestrator: perform_migration(job_id, req), one invocation r      *)
(***************************************************************************)

Req(r) == args[r[1]]

source_auth(r) ==
    get_auth_url(Req(r).source_repo_url, Req(r).source_token, Req(r).source_type)

dest_auth(r) ==
    get_auth_url(Req(r).dest_repo_url, Req(r).dest_token, Req(r).dest_type)

source_context(r) ==
    repo_context(Req(r).source_type, Req(r).source_token, Req(r).source_repo_url)

destination_context(r) ==
    repo_context(Req(r).dest_type, Req(r).dest_token, Req(r).dest_repo_url)

temp_dir(r) == temp_dir_of(r[1], Req(r))

Goto(r, position) == pc' = [ pc EXCEPT ![r] = position ]

\* an exception leaves the try body for the except clauses
Throw(r, kind, msg) ==
    /\ exc' = [ exc EXCEPT ![r] = [ kind |-> kind, msg |-> msg, at |-> pc[r] ] ]
    /\ Goto(r, "except")

Log(r, op) == net' = [ net EXCEPT ![r] = Append(@, op) ]

\* a variant that passes over the pull request action
metadata_position_without_prs(actions, from) ==
    IF from = "issues" /\ actions.migrate_issues THEN "issues"
    ELSE IF from \in { "issues", "prs", "users" } /\ actions.migrate_users THEN "users"
    ELSE "complete"

\* the first enabled metadata action at or after a position
metadata_position(actions, from) ==
    IF from = "issues" /\ actions.migrate_issues THEN "issues"
    ELSE IF from \in { "issues", "prs" } /\ actions.migrate_prs THEN "prs"
    ELSE IF from \in { "issues", "prs", "users" } /\ actions.migrate_users THEN "users"
    ELSE "complete"

\* a variant that leaves the error of the previous run in place
processing_update_keeps_error == [ status |-> "processing", results |-> << >> ]

\* a variant that leaves the results of the previous run in place
processing_update_keeps_results == [ status |-> "processing", error |-> None ]

\* line 899
processing_update == [ status |-> "processing", results |-> << >>, error |-> None ]

\* lines 896-899: _update_job(job_id, status="processing", results={}, error=None)
pm_begin(r) ==
    /\ pc[r] = "start"
    /\ migration_jobs' = update_job(migration_jobs, r[1], processing_update)
    /\ local' = [ local EXCEPT ![r] = NoLocal ]
    /\ Goto(r, "shape")
    /\ UNCHANGED << scheduler_jobs, args, fires, exc, net, ended, fs, fn_vars, response >>

\* lines 901-905, before the try: a ValueError of _repo_context leaves
\* perform_migration at once
pm_shape(r) ==
    /\ pc[r] = "shape"
    /\ IF source_context(r).raised \/ destination_context(r).raised
       THEN /\ Goto(r, "done")
            /\ ended' = [ ended EXCEPT ![r] = [ status |-> "raised", rmtree |-> "not_called" ] ]
       ELSE /\ Goto(r, "clone")
            /\ UNCHANGED ended
    /\ UNCHANGED << migration_jobs, scheduler_jobs, args, fires, local, exc, net, fs, fn_vars, response >>

\* lines 908-909: os.makedirs and Repo.clone_from. git refuses to clone into
\* a directory that exists and is not empty; a failed clone may leave the
\* directory behind.
pm_clone(r) ==
    /\ pc[r] = "clone"
    /\ \/ /\ Throw(r, "other", << "o" >>)
          /\ UNCHANGED << net, fs >>
       \/ /\ temp_dir(r) \in fs
          /\ \E msg \in git_messages(source_auth(r)) : Throw(r, "git", msg)
          /\ UNCHANGED << net, fs >>
       \/ /\ temp_dir(r) \notin fs
          /\ Log(r, NetOp("clone", "", << >>))
          /\ \/ /\ fs' = fs \cup { temp_dir(r) }
                /\ Goto(r, "remote")
                /\ UNCHANGED exc
             \/ /\ fs' \in { fs, fs \cup { temp_dir(r) } }
                /\ \E msg \in git_messages(source_auth(r)) : Throw(r, "git", msg)
    /\ local' = [ local EXCEPT ![r].created = temp_dir(r) \in fs' /\ temp_dir(r) \notin fs ]
    /\ UNCHANGED << migration_jobs, scheduler_jobs, args, fires, ended, fn_vars, response >>

\* lines 910-912: a fresh clone has no remote named migration_dest;
\* create_remote runs git remote add
pm_remote(r) ==
    /\ pc[r] = "remote"
    /\ \/ /\ Goto(r, "push")
          /\ UNCHANGED exc
       \/ \E msg \in git_messages(dest_auth(r)) : Throw(r, "git", msg)
    /\ UNCHANGED << migration_jobs, scheduler_jobs, args, fires, local, net, ended, fs, fn_vars, response >>

\* one repo.git.push: it is issued, and it succeeds with the given effect on
\* the locals or raises GitCommandError
Push(r, what, results, next_position) ==
    /\ Log(r, NetOp("push", what, << >>))
    /\ \/ /\ local' = [ local EXCEPT ![r].results = results ]
          /\ Goto(r, next_position)
          /\ UNCHANGED exc
       \/ /\ \E msg \in git_messages(dest_auth(r)) : Throw(r, "git", msg)
          /\ UNCHANGED local

\* lines 918-920: push --mirror
pm_push_mirror(r) ==
    /\ pc[r] = "push"
    /\ Req(r).actions.migrate_repo
    /\ Push(r, "--mirror", SetKey(local[r].results, "repository", "success"),
            metadata_position(Req(r).actions, "issues"))
    /\ UNCHANGED << migration_jobs, scheduler_jobs, args, fires, ended, fs, fn_vars, response >>

\* a variant that starts the metadata actions right after the all-branches
\* push
after_branches_to_metadata(actions) == "issues"

\* where the selective plan goes after the all-branches push
after_branches(actions) ==
    IF actions.specific_branches # << >> THEN "specific" ELSE "tags"

\* lines 921-924: push refs/heads/*
pm_push_branches(r) ==
    /\ pc[r] = "push"
    /\ ~Req(r).actions.migrate_repo
    /\ IF Req(r).actions.migrate_branches
       THEN Push(r, "refs/heads/*", SetKey(local[r].results, "branches", "success"),
                 after_branches(Req(r).actions))
       ELSE /\ Goto(r, after_branches(Req(r).actions))
            /\ UNCHANGED << local, exc, net >>
    /\ UNCHANGED << migration_jobs, scheduler_jobs, args, fires, ended, fs, fn_vars, response >>

\* a variant that records every selective branch as pushed
specific_results_all_pushed(results, pushed, missing) ==
    SetKey(results, "specific_branches", [ pushed |-> pushed \o missing ])

\* lines 939-942: the results entries of the selective branches
specific_results(results, pushed, missing) ==
    LET with_pushed == IF pushed # << >>
                       THEN SetKey(results, "specific_branches", [ pushed |-> pushed ])
                       ELSE results
    IN  IF missing # << >>
        THEN SetKey(with_pushed, "specific_branches_missing", missing)
        ELSE with_pushed

\* lines 926-942: one iteration of the loop over specific_branches, and the
\* recording of pushed and missing after the last one. rev-parse --verify
\* is local; its GitCommandError is caught and the branch is missing.
pm_specific_branch(r) ==
    LET branches == Req(r).actions.specific_branches
        branch == branches[local[r].idx]
        last == local[r].idx = Len(branches)
        After(pushed, missing) ==
            IF last
            THEN /\ local' = [ local EXCEPT
                        ![r].results = specific_results(@, pushed, missing),
                        ![r].pushed = << >>, ![r].missing = << >>, ![r].idx = 1 ]
                 /\ Goto(r, "tags")
            ELSE /\ local' = [ local EXCEPT ![r].pushed = pushed,
                                            ![r].missing = missing,
                                            ![r].idx = @ + 1 ]
                 /\ UNCHANGED pc
    IN  /\ pc[r] = "specific"
        /\ \/ /\ After(local[r].pushed, Append(local[r].missing, branch))
              /\ UNCHANGED << exc, net >>
           \/ /\ Log(r, NetOp("push", branch, << >>))
              /\ \/ /\ After(Append(local[r].pushed, branch), local[r].missing)
                    /\ UNCHANGED exc
                 \/ /\ \E msg \in git_messages(dest_auth(r)) : Throw(r, "git", msg)
                    /\ UNCHANGED local
        /\ UNCHANGED << migration_jobs, scheduler_jobs, args, fires, ended, fs, fn_vars, response >>

\* a variant that records 'skipped' whenever the tags are not migrated
skipped_results_without_tags(actions, results) ==
    IF ~actions.migrate_tags THEN SetKey(results, "repository", "skipped") ELSE results

\* lines 948-949: no ref-level flag is set
skipped_results(actions, results) ==
    IF ~(actions.migrate_branches \/ actions.specific_branches # << >> \/ actions.migrate_tags)
    THEN SetKey(results, "repository", "skipped")
    ELSE results

\* lines 944-949: push refs/tags/*, then the skipped record
pm_push_tags(r) ==
    /\ pc[r] = "tags"
    /\ IF Req(r).actions.migrate_tags
       THEN Push(r, "refs/tags/*", SetKey(local[r].results, "tags", "success"),
                 metadata_position(Req(r).actions, "issues"))
       ELSE /\ local' = [ local EXCEPT ![r].results = skipped_results(Req(r).actions, @) ]
            /\ Goto(r, metadata_position(Req(r).actions, "issues"))
            /\ UNCHANGED << exc, net >>
    /\ UNCHANGED << migration_jobs, scheduler_jobs, args, fires, ended, fs, fn_vars, response >>

\* a metadata action returned or raised: its REST calls are logged, its
\* record is stored in results or its exception leaves the try body
Metadata(r, key, done, context, next_position) ==
    /\ net' = [ net EXCEPT ![r] =
                  IF done.calls = << >> THEN @ ELSE Append(@, NetOp("rest", key, done.calls)) ]
    /\ IF done.raised
       THEN /\ \E msg \in other_messages(done.error, context) : Throw(r, "other", msg)
            /\ UNCHANGED local
       ELSE /\ local' = [ local EXCEPT ![r].results = SetKey(@, key, done.result) ]
            /\ Goto(r, next_position)
            /\ UNCHANGED exc

\* lines 951-952
pm_issues(r) ==
    LET source == source_context(r)
        destination == destination_context(r)
    IN  /\ pc[r] = "issues"
        /\ \E listing \in Listings(IssueItems, MaxItems) :
           \E outcomes \in [ 1..Len(listing.items) -> Outcomes ] :
              Metadata(r, "issues",
                       migrate_issues(source, destination, listing, outcomes),
                       source, metadata_position(Req(r).actions, "prs"))
        /\ UNCHANGED << migration_jobs, scheduler_jobs, args, fires, ended, fs, fn_vars, response >>

\* lines 954-955
pm_prs(r) ==
    LET source == source_context(r)
        destination == destination_context(r)
    IN  /\ pc[r] = "prs"
        /\ \E listing \in Listings(PrItems, MaxItems) :
           \E outcomes \in [ 1..Len(listing.items) -> Outcomes ] :
              Metadata(r, "prs",
                       migrate_pull_requests(source, destination, listing, outcomes),
                       source, metadata_position(Req(r).actions, "users"))
        /\ UNCHANGED << migration_jobs, scheduler_jobs, args, fires, ended, fs, fn_vars, response >>

\* lines 957-958
pm_users(r) ==
    LET source == source_context(r)
        destination == destination_context(r)
    IN  /\ pc[r] = "users"
        /\ \E listing \in UserListings(MaxUsers), dest_listing \in UserListings(MaxUsers),
              checks \in UserChecks(MaxUsers) :
              Metadata(r, "users",
                       migrate_users(source, destination, listing, dest_listing, checks),
                       IF list_users(source, listing).raised THEN source ELSE destination,
                       "complete")
        /\ UNCHANGED << migration_jobs, scheduler_jobs, args, fires, ended, fs, fn_vars, response >>

\* line 960: _update_job(job_id, status="completed", results=results)
completed_update(results) == [ status |-> "completed", results |-> results ]

pm_complete(r) ==
    /\ pc[r] = "complete"
    /\ migration_jobs' = update_job(migration_jobs, r[1], completed_update(local[r].results))
    /\ local' = [ local EXCEPT ![r].wrote = "completed" ]
    /\ Goto(r, "finally")
    /\ UNCHANGED << scheduler_jobs, args, fires, exc, net, ended, fs, fn_vars, response >>

\* lines 962-967: the error text written for an exception
error_text(kind, msg, req) ==
    IF kind = "git"
    THEN GitFailedPrefix \o redact_sensitive(msg, req)
    ELSE redact_sensitive(msg, req)

pm_except(r) ==
    /\ pc[r] = "except"
    /\ migration_jobs' = update_job(migration_jobs, r[1],
            [ status |-> "failed",
              error |-> Str(error_text(exc[r].kind, exc[r].msg, Req(r))) ])
    /\ exc' = [ exc EXCEPT ![r] = NoExc ]
    /\ local' = [ local EXCEPT ![r].wrote = "failed" ]
    /\ Goto(r, "finally")
    /\ UNCHANGED << scheduler_jobs, args, fires, net, ended, fs, fn_vars, response >>

\* a variant that cleans up after a completed run only
cleanup_after_success_only(r) == temp_dir(r) \in fs /\ local[r].wrote = "completed"

\* line 969: the finally block calls rmtree
cleanup_needed(r) == temp_dir(r) \in fs

\* lines 968-970: shutil.rmtree(temp_dir, ignore_errors=True) removes the
\* directory or fails without raising
rmtree_results(dirs, dir) == { dirs \ { dir }, dirs }

pm_finally(r) ==
    /\ pc[r] = "finally"
    /\ IF cleanup_needed(r)
       THEN /\ fs' \in rmtree_results(fs, temp_dir(r))
            /\ ended' = [ ended EXCEPT ![r] =
                  [ status |-> local[r].wrote,
                    rmtree |-> IF temp_dir(r) \in fs' THEN "failed" ELSE "removed" ] ]
       ELSE /\ UNCHANGED fs
            /\ ended' = [ ended EXCEPT ![r] =
                  [ status |-> local[r].wrote, rmtree |-> "not_called" ] ]
    /\ local' = [ local EXCEPT ![r] = NoLocal ]
    /\ Goto(r, "done")
    /\ UNCHANGED << migration_jobs, scheduler_jobs, args, fires, exc, net, fn_vars, response >>

perform_migration(r) ==
    \/ pm_begin(r)
    \/ pm_shape(r)
    \/ pm_clone(r)
    \/ pm_remote(r)
    \/ pm_push_mirror(r)
    \/ pm_push_branches(r)
    \/ pm_specific_branch(r)
    \/ pm_push_tags(r)
    \/ pm_issues(r)
    \/ pm_prs(r)
    \/ pm_users(r)
    \/ pm_complete(r)
    \/ pm_except(r)
    \/ pm_finally(r)

(***************************************************************************)
(* Specifications                                                          *)
(***************************************************************************)

DefaultActions == MigrationActions(TRUE, TRUE, << >>, TRUE, FALSE, FALSE, FALSE)

GithubToGitlab(surl, actions) ==
    MigrationRequest("github", TokenSource, surl, "gitlab", TokenDest, UrlGit, actions)

\* the requests POSTed to /migrate in the two-job specification
ManualRequests ==
    { GithubToGitlab(UrlGit, MigrationActions(FALSE, TRUE, << "main", "missing" >>, TRUE,
                                              FALSE, FALSE, FALSE)),
      GithubToGitlab(UrlGit, MigrationActions(TRUE, TRUE, << >>, TRUE, TRUE, FALSE, FALSE)),
      GithubToGitlab(UrlGit, MigrationActions(TRUE, TRUE, << >>, TRUE, FALSE, TRUE, FALSE)),
      GithubToGitlab(UrlGit, MigrationActions(TRUE, TRUE, << >>, TRUE, FALSE, FALSE, TRUE)) }

\* the requests POSTed to /schedule in the two-job specification
SchedRequests ==
    { GithubToGitlab(UrlGit, DefaultActions),
      GithubToGitlab(UrlEmpty, DefaultActions) }

Intervals == { -1, 0, 1 }

Next ==
    \/ \E job_id \in ManualIds, request \in ManualRequests : run_manual_sync(job_id, request)
    \/ \E job_id \in SchedIds, request \in SchedRequests, interval_minutes \in Intervals :
          run_scheduled_sync(job_id, request, interval_minutes)
    \/ \E job_id \in SchedIds : scheduler_fire(job_id)
    \/ \E r \in Runs : perform_migration(r)

\* a one-shot job and a periodic job, their invocations interleaved
Spec == Init /\ [][Next]_vars

\* ---- one one-shot job, over the requests' flags, providers, URLs, tokens

OneJob == << "manual", "a" >>

Booleans == { TRUE, FALSE }

FlagActions ==
    { MigrationActions(repo, branches, specific, tags, issues, prs, users) :
        repo \in Booleans, branches \in Booleans,
        specific \in { << >>, << "main", "missing" >> }, tags \in Booleans,
        issues \in Booleans, prs \in Booleans, users \in Booleans }

MetadataActions ==
    { MigrationActions(TRUE, TRUE, << >>, TRUE, issues, prs, users) :
        issues \in Booleans, prs \in Booleans, users \in Booleans }

ProviderNames == { "github", "gitlab", "bitbucket", "gitea" }

UrlFor(provider) == IF provider = "bitbucket" THEN UrlBitbucket ELSE UrlGit

TokenFor(provider, token) == IF provider = "bitbucket" THEN TokenBitbucket ELSE token

FlagRequests == { GithubToGitlab(UrlGit, actions) : actions \in FlagActions }

ProviderRequests ==
    { MigrationRequest(stype, TokenFor(stype, TokenSource), UrlFor(stype),
                       dtype, TokenFor(dtype, TokenDest), UrlFor(dtype), actions) :
        stype \in ProviderNames, dtype \in ProviderNames, actions \in MetadataActions }

UrlRequests ==
    { MigrationRequest(stype, TokenSource, surl, "gitlab", TokenDest, durl, actions) :
        stype \in { "github", "gitlab", "bitbucket" },
        surl \in { UrlGit, UrlBitbucket, UrlOneSegment, UrlEmpty },
        durl \in { UrlGit, UrlOneSegment, UrlEmpty },
        actions \in { DefaultActions,
                      MigrationActions(TRUE, TRUE, << >>, TRUE, TRUE, FALSE, FALSE) } }

TokenRequests ==
    { MigrationRequest("github", stoken, UrlGit, "gitlab", dtoken, UrlGit, DefaultActions) :
        stoken \in { TokenSource, TokenGit, TokenStar },
        dtoken \in { TokenDest, TokenGit, TokenStar } }

RequestsOne == FlagRequests \cup ProviderRequests \cup UrlRequests \cup TokenRequests

NextOne ==
    \/ \E request \in RequestsOne : run_manual_sync(OneJob, request)
    \/ perform_migration(<< OneJob, 1 >>)

SpecOne == Init /\ [][NextOne]_vars

\* ---- the API surface: a one-shot job, a registration, and status reads

UnknownId == << "manual", "zz" >>

ApiIntervals == { -1, 0, 1, 2 }

\* the requests of the manual job: a full mirror, and a selective plan with
\* every metadata action
ApiRequests ==
    { GithubToGitlab(UrlGit, DefaultActions),
      GithubToGitlab(UrlGit, MigrationActions(FALSE, TRUE, << "main" >>, TRUE,
                                              TRUE, TRUE, TRUE)) }

NextApi ==
    \/ \E req \in ApiRequests : run_manual_sync(OneJob, req)
    \/ \E job_id \in SchedIds, interval_minutes \in ApiIntervals :
          run_scheduled_sync(job_id, GithubToGitlab(UrlGit, DefaultActions), interval_minutes)
    \/ \E interval_minutes \in ApiIntervals : reject_scheduled_sync(interval_minutes)
    \/ perform_migration(<< OneJob, 1 >>)
    \/ \E job_id \in JobIds \cup { UnknownId } : get_status(job_id)
    \/ encode_response
    \/ send_response

SpecApi == Init /\ [][NextApi]_vars

\* ---- the pure helpers applied on their own

PageLoops ==
    { "_list_github_issues", "_list_github_prs", "_list_github_users",
      "_list_gitlab_issues", "_list_gitlab_mrs", "_list_gitlab_users" }

\* what a provider does when it is asked for page after page
Providers == [ full_pages : 0..MaxFullPages, then : { "partial", "empty", "error" } ]

PageInputs ==
    [ applied : { TRUE }, fn : PageLoops \cup { "_bitbucket_paginated_get" },
      provider : Providers ]

\* an auth URL is shaped for a token and then redacted
RedactInputs ==
    [ applied : { TRUE }, fn : { "_redact_sensitive" },
      provider : { "github", "gitlab", "bitbucket" },
      url : { UrlGit, UrlBitbucket },
      token : { TokenSource, TokenReserved, TokenBitbucket, TokenBitbucketReserved } ]

\* values a specific_branches list can hold: branch names with and without
\* padding, with inner whitespace, empty and blank strings, and a value that
\* is not a str
BranchItems ==
    { PyStr(text) : text \in { << "a" >>, << " ", "a" >>, << "a", " " >>,
                               << "\t", "a", " " >>, << "b" >>, << "a", " ", "b" >>,
                               << >>, << " " >>, << " ", "\t" >> } }
    \cup { [ type |-> "int" ] }

BranchInputs ==
    [ applied : { TRUE }, fn : { "normalize_branches" },
      value : SeqsUpTo(BranchItems, MaxBranches) ]

\* destinations of a create function: three whose request URL can be built,
\* a github repository URL with one path segment and a bitbucket context
\* whose host is not bitbucket.org
CreateContexts ==
    { repo_context("github", TokenDest, UrlGit), repo_context("gitlab", TokenDest, UrlGit),
      repo_context("bitbucket", TokenBitbucket, UrlBitbucket),
      repo_context("github", TokenDest, UrlOneSegment),
      repo_context("bitbucket", TokenBitbucket, UrlGit) }

\* the JSON bodies of a create answer: two created items and an empty body
CreatedBodies ==
    { [ id |-> 1, number |-> 2, iid |-> 3 ], [ id |-> 4, number |-> 5, iid |-> 6 ], << >> }

RequestOutcomes == { "ok", "http_error", "network_error" }

CreateInputs ==
    [ applied : { TRUE }, fn : { "_create" }, kind : { "issue", "pr" },
      destination : CreateContexts,
      item : [ state : { "open", "closed" } ],
      answer : [ create : RequestOutcomes, created : CreatedBodies,
                 close : RequestOutcomes ] ]

\* values a provider-side state field can carry: the state names of the
\* three providers, a name none of them uses, a JSON null and no field
SourceStates ==
    { "open", "closed", "opened", "reopened", "merged", "locked", "new", "resolved",
      "OPEN", "MERGED", "DECLINED", "SUPERSEDED", "other", Null, Absent }

\* source records that differ in their state field
StateInputs ==
    [ applied : { TRUE }, fn : { "issue_state" }, provider : METADATA_SUPPORTED_PROVIDERS,
      item : [ state : SourceStates, labels : { "list" }, content : { "object" } ] ]
    \cup [ applied : { TRUE }, fn : { "pr_state" }, provider : METADATA_SUPPORTED_PROVIDERS,
           item : [ state : SourceStates, source_branch : { "feat" },
                    target_branch : { "main" } ] ]

\* the supported contexts
UserContexts ==
    { repo_context("github", TokenSource, UrlGit), repo_context("gitlab", TokenSource, UrlGit),
      repo_context("bitbucket", TokenBitbucket, UrlBitbucket) }

\* source listings of n usernames, numbered in sort order
ListedCounts == { 0, 1, SAMPLE_SIZE - 1, SAMPLE_SIZE, SAMPLE_SIZE + 1, MaxListed }

\* the destination's answers to the existence checks: the same for every
\* username, or changing from one username to the next
CheckPatterns ==
    { [ username \in 1..MaxListed |-> answer ] : answer \in { "exists", "absent", "raises" } }
    \cup { [ username \in 1..MaxListed |->
               << "exists", "absent", "raises" >>[(username % 3) + 1] ] }

\* the users a bitbucket destination lists: none, every second one, all
KnownUsers ==
    { << >>, [ k \in 1..(MaxListed \div 2) |-> 2 * k ], [ k \in 1..MaxListed |-> k ] }

UserInputs ==
    [ applied : { TRUE }, fn : { "migrate_users" },
      source : UserContexts, destination : UserContexts,
      listing : { [ status |-> "ok", users |-> [ k \in 1..n |-> k ] ] : n \in ListedCounts }
                \cup { [ status |-> "http_error", users |-> << >> ] },
      dest_listing : { [ status |-> "ok", users |-> known ] : known \in KnownUsers },
      checks : CheckPatterns ]

\* normalized issues and pull requests
NormalizedIssues ==
    [ title : { "t" }, description : { "", "d" }, state : { "open", "closed" },
      labels : { PyList(<< >>), PyList(<< PyStr("bug") >>) } ]

NormalizedPrs ==
    [ title : { "t" }, description : { "", "d" }, source_branch : { "feat" },
      target_branch : { "main" }, state : { "open", "closed" }, draft : BOOLEAN ]

\* a create payload is handed to the normaliser of the same provider
RoundTripInputs ==
    [ applied : { TRUE }, fn : { "_normalize_issue_from_source" },
      provider : METADATA_SUPPORTED_PROVIDERS, item : NormalizedIssues ]
    \cup [ applied : { TRUE }, fn : { "_normalize_pr_from_source" },
           provider : METADATA_SUPPORTED_PROVIDERS, item : NormalizedPrs ]

InitPure ==
    /\ InitJobs
    /\ fn_in \in PageInputs \cup RedactInputs \cup RoundTripInputs \cup BranchInputs
                \cup CreateInputs \cup StateInputs \cup UserInputs
    /\ fn_out = NotApplied

apply_list_by_page ==
    /\ fn_in.fn \in PageLoops
    /\ fn_out = NotApplied
    /\ fn_out' = [ applied |-> TRUE, paged |-> list_by_page(fn_in.provider, 1, 0) ]
    /\ UNCHANGED << migration_jobs, scheduler_jobs, args, fires, pc, local, exc, net,
                    ended, fs, fn_in, response >>

apply_bitbucket_paginated_get ==
    /\ fn_in.fn = "_bitbucket_paginated_get"
    /\ fn_out = NotApplied
    /\ fn_out' = [ applied |-> TRUE,
                   paged |-> bitbucket_paginated_get(fn_in.provider, 0, TRUE) ]
    /\ UNCHANGED << migration_jobs, scheduler_jobs, args, fires, pc, local, exc, net,
                    ended, fs, fn_in, response >>

\* _redact_sensitive(get_auth_url(url, token, provider), req) for a request
\* whose source token is the token
apply_redact_sensitive ==
    /\ fn_in.fn = "_redact_sensitive"
    /\ fn_out = NotApplied
    /\ LET auth_url == get_auth_url(fn_in.url, fn_in.token, fn_in.provider)
           req == [ source_token |-> fn_in.token, dest_token |-> TokenDest ]
       IN  fn_out' = [ applied |-> TRUE, auth_url |-> auth_url,
                       redacted |-> redact_sensitive(auth_url, req) ]
    /\ UNCHANGED << migration_jobs, scheduler_jobs, args, fires, pc, local, exc, net,
                    ended, fs, fn_in, response >>

apply_normalize_issue ==
    /\ fn_in.fn = "_normalize_issue_from_source"
    /\ fn_out = NotApplied
    /\ fn_out' = [ applied |-> TRUE,
                   normalized |-> normalize_issue_fields(fn_in.provider,
                                      create_body(fn_in.provider, "issue", fn_in.item)) ]
    /\ UNCHANGED << migration_jobs, scheduler_jobs, args, fires, pc, local, exc, net,
                    ended, fs, fn_in, response >>

apply_normalize_pr ==
    /\ fn_in.fn = "_normalize_pr_from_source"
    /\ fn_out = NotApplied
    /\ fn_out' = [ applied |-> TRUE,
                   normalized |-> normalize_pr_fields(fn_in.provider,
                                      create_body(fn_in.provider, "pr", fn_in.item)) ]
    /\ UNCHANGED << migration_jobs, scheduler_jobs, args, fires, pc, local, exc, net,
                    ended, fs, fn_in, response >>

apply_normalize_branches ==
    /\ fn_in.fn = "normalize_branches"
    /\ fn_out = NotApplied
    /\ fn_out' = [ applied |-> TRUE, cleaned |-> normalize_branches(fn_in.value) ]
    /\ UNCHANGED << migration_jobs, scheduler_jobs, args, fires, pc, local, exc, net,
                    ended, fs, fn_in, response >>

apply_create ==
    /\ fn_in.fn = "_create"
    /\ fn_out = NotApplied
    /\ fn_out' = [ applied |-> TRUE,
                   made |-> create_then_close(fn_in.destination, fn_in.kind, fn_in.item,
                                              fn_in.answer) ]
    /\ UNCHANGED << migration_jobs, scheduler_jobs, args, fires, pc, local, exc, net,
                    ended, fs, fn_in, response >>

apply_normalize_source_issue ==
    /\ fn_in.fn = "issue_state"
    /\ fn_out = NotApplied
    /\ fn_out' = [ applied |-> TRUE,
                   normalized |-> normalize_issue_from_source(fn_in.provider, fn_in.item) ]
    /\ UNCHANGED << migration_jobs, scheduler_jobs, args, fires, pc, local, exc, net,
                    ended, fs, fn_in, response >>

apply_normalize_source_pr ==
    /\ fn_in.fn = "pr_state"
    /\ fn_out = NotApplied
    /\ fn_out' = [ applied |-> TRUE,
                   normalized |-> normalize_pr_from_source(fn_in.provider, fn_in.item) ]
    /\ UNCHANGED << migration_jobs, scheduler_jobs, args, fires, pc, local, exc, net,
                    ended, fs, fn_in, response >>

apply_migrate_users ==
    /\ fn_in.fn = "migrate_users"
    /\ fn_out = NotApplied
    /\ LET done == migrate_users(fn_in.source, fn_in.destination, fn_in.listing,
                                 fn_in.dest_listing, fn_in.checks)
       IN  fn_out' = [ applied |-> TRUE, raised |-> done.raised, calls |-> done.calls,
                       result |-> done.result ]
    /\ UNCHANGED << migration_jobs, scheduler_jobs, args, fires, pc, local, exc, net,
                    ended, fs, fn_in, response >>

NextPure ==
    \/ apply_migrate_users
    \/ apply_normalize_source_issue
    \/ apply_normalize_source_pr
    \/ apply_create
    \/ apply_normalize_branches
    \/ apply_list_by_page
    \/ apply_bitbucket_paginated_get
    \/ apply_redact_sensitive
    \/ apply_normalize_issue
    \/ apply_normalize_pr

SpecPure == InitPure /\ [][NextPure]_vars

\* ---- migrate_issues and migrate_pull_requests applied on their own

MetaContexts ==
    { repo_context(provider, TokenSource, UrlGit) : provider \in { "github", "gitlab", "gitea" } }
    \cup { repo_context("bitbucket", TokenBitbucket, UrlBitbucket),
           repo_context("github", TokenSource, UrlOneSegment) }

\* the arguments of one application: a source and a destination context,
\* the source's answer to the listing and the destination's answers per item
MetaInputs(fn, items, n) ==
    UNION { { [ applied |-> TRUE, fn |-> fn, source |-> source,
                destination |-> destination, listing |-> listing,
                outcomes |-> outcomes ] :
                source \in MetaContexts, destination \in MetaContexts,
                outcomes \in [ 1..Len(listing.items) -> Outcomes ] } :
            listing \in Listings(items, n) }

InitMeta ==
    /\ InitJobs
    /\ fn_in \in MetaInputs("migrate_issues", IssueItems, MaxBatch)
                 \cup MetaInputs("migrate_pull_requests", PrItems, MaxBatch)
    /\ fn_out = NotApplied

Returned(done) ==
    [ applied |-> TRUE, raised |-> done.raised, error |-> done.error,
      attempted |-> done.attempted, calls |-> done.calls, result |-> done.result ]

apply_migrate_issues ==
    /\ fn_in.fn = "migrate_issues"
    /\ fn_out = NotApplied
    /\ fn_out' = Returned(migrate_issues(fn_in.source, fn_in.destination,
                                         fn_in.listing, fn_in.outcomes))
    /\ UNCHANGED << migration_jobs, scheduler_jobs, args, fires, pc, local, exc, net,
                    ended, fs, fn_in, response >>

apply_migrate_pull_requests ==
    /\ fn_in.fn = "migrate_pull_requests"
    /\ fn_out = NotApplied
    /\ fn_out' = Returned(migrate_pull_requests(fn_in.source, fn_in.destination,
                                                fn_in.listing, fn_in.outcomes))
    /\ UNCHANGED << migration_jobs, scheduler_jobs, args, fires, pc, local, exc, net,
                    ended, fs, fn_in, response >>

NextMeta == apply_migrate_issues \/ apply_migrate_pull_requests

SpecMeta == InitMeta /\ [][NextMeta]_vars

(***************************************************************************)
(* Properties                                                              *)
(***************************************************************************)

Terminal == { "completed", "failed" }

MetadataKeys == { "issues", "prs", "users" }

\* the job's request enables the metadata action recorded under key
Enabled(actions, key) ==
    CASE key = "issues" -> actions.migrate_issues
      [] key = "prs" -> actions.migrate_prs
      [] key = "users" -> actions.migrate_users

\* C1: every invocation of perform_migration that has set the status to
\* 'processing' has written 'completed' or 'failed' by the time it ends.
\* As stated it fails: an invocation that leaves by the ValueError of
\* _repo_context has ended without writing a terminal status.
C1_EndsTerminal ==
    \A r \in Runs : pc[r] = "done" => ended[r].status \in Terminal

C3_NoTokenInError ==
    \A job_id \in DOMAIN migration_jobs :
        migration_jobs[job_id].error # None =>
            /\ ~Contains(migration_jobs[job_id].error[1], args[job_id].source_token)
            /\ ~Contains(migration_jobs[job_id].error[1], args[job_id].dest_token)

\* an invocation ends in this step
Ends(r) == pc[r] # "done" /\ pc'[r] = "done"

C5_EntryForEveryFlag ==
    \A job_id \in DOMAIN migration_jobs :
        migration_jobs[job_id].status = "completed" =>
            LET actions == args[job_id].actions
                keys == DOMAIN migration_jobs[job_id].results
            IN  /\ actions.migrate_repo => "repository" \in keys
                /\ actions.migrate_branches => "branches" \in keys
                /\ actions.migrate_tags => "tags" \in keys
                /\ \A key \in MetadataKeys : Enabled(actions, key) => key \in keys

\* C5 amended: a completed job's results have 'repository' when
\* migrate_repo was true, 'issues', 'prs' and 'users' when their flags were
\* true, and 'branches' and 'tags' exactly when their flags were true and
\* migrate_repo was false.
C5_EntryForEveryFlagRun ==
    \A job_id \in DOMAIN migration_jobs :
        migration_jobs[job_id].status = "completed" =>
            LET actions == args[job_id].actions
                keys == DOMAIN migration_jobs[job_id].results
            IN  /\ actions.migrate_repo => "repository" \in keys
                /\ "branches" \in keys <=> (actions.migrate_branches /\ ~actions.migrate_repo)
                /\ "tags" \in keys <=> (actions.migrate_tags /\ ~actions.migrate_repo)
                /\ \A key \in MetadataKeys : Enabled(actions, key) => key \in keys

\* a completed job with migrate_repo, migrate_branches and every metadata
\* flag set: the metadata entries are there, 'branches' is not
C5_Witness ==
    /\ OneJob \in DOMAIN migration_jobs
    /\ migration_jobs[OneJob].status = "completed"
    /\ args[OneJob].actions.migrate_repo
    /\ args[OneJob].actions.migrate_branches
    /\ \A key \in MetadataKeys : Enabled(args[OneJob].actions, key)
    /\ MetadataKeys \subseteq DOMAIN migration_jobs[OneJob].results
    /\ "branches" \notin DOMAIN migration_jobs[OneJob].results

Normalized(item) ==
    IF fn_in.fn = "migrate_issues"
    THEN normalize_issue_from_source(fn_in.source.provider, item)
    ELSE normalize_pr_from_source(fn_in.source.provider, item)

\* the item's create call is issued and succeeds, and it is closed at the
\* source, so that a close call follows
CreatedThenClosed(i) ==
    LET normalized == Normalized(fn_in.listing.items[i])
    IN  /\ ~normalized.raised
        /\ normalized.state = "closed"
        /\ fn_in.fn = "migrate_pull_requests" =>
              ~Falsy(normalized.source_branch) /\ ~Falsy(normalized.target_branch)
        /\ fn_in.outcomes[i].create = "ok"

\* the source listing is obtained and both providers are supported
Listed ==
    /\ metadata_supported(fn_in.source, fn_in.destination)
    /\ ~list_items(fn_in.source, fn_in.listing).raised

\* C7: an item whose create call succeeds and whose close call fails is
\* counted in 'created' and not in 'failed' (here: a batch of such items).
\* As stated it fails: the close call goes through _request_json, whose
\* error is caught by the loop's except and counted as a failure.
C7_CloseFailureCountsCreated ==
    ( /\ fn_out.applied
      /\ Listed
      /\ adapter_url_ok(fn_in.destination)
      /\ fn_in.listing.items # << >>
      /\ \A i \in 1..Len(fn_in.listing.items) :
            CreatedThenClosed(i) /\ fn_in.outcomes[i].close # "ok" )
    => /\ ~fn_out.raised
       /\ fn_out.result.created = Len(fn_in.listing.items)
       /\ fn_out.result.failed = 0

\* C8: a failure on one item never aborts the batch: the function returns a
\* 'completed' record and every item was attempted or skipped. As stated
\* it fails: the normaliser runs outside the loop's try.
C8_BatchNeverAborts ==
    (fn_out.applied /\ Listed)
    => /\ ~fn_out.raised
       /\ fn_out.result.status = "completed"
       /\ fn_out.result.source_count = Len(fn_in.listing.items)

\* the source URL's path has fewer than two segments
FewerThanTwoSegments(provider, token, url) ==
    LET context == repo_context(provider, token, url)
    IN  context.raised \/ ~has_owner_and_repo(context)

\* C9: a job whose source is github or bitbucket and whose source URL has
\* fewer than two path segments issues no clone, push or REST call and never
\* ends 'completed'. As stated it fails: the segments are first looked at
\* when a REST URL is built, after the clone and the pushes.
C9_NoNetworkOnShortUrl ==
    \A r \in Runs :
        ( /\ pc[r] # "none"
          /\ Req(r).source_type \in { "github", "bitbucket" }
          /\ FewerThanTwoSegments(Req(r).source_type, Req(r).source_token,
                                  Req(r).source_repo_url) )
        => /\ net[r] = << >>
           /\ ended[r].status # "completed"

\* a provider of the job's request is outside the supported set
Unsupported(req) ==
    \/ Lower(req.source_type) \notin METADATA_SUPPORTED_PROVIDERS
    \/ Lower(req.dest_type) \notin METADATA_SUPPORTED_PROVIDERS

\* the metadata records of a results mapping
UnsupportedRecords(results) ==
    \A key \in MetadataKeys \cap DOMAIN results :
        /\ results[key].status = "unsupported"
        /\ "message" \in DOMAIN results[key]

\* C10: with a provider outside {github, gitlab, bitbucket}, every metadata
\* action that ran left a record with status 'unsupported' and a message,
\* no REST call was issued, no metadata action raised, and a job that ran
\* past the transport step is 'completed' with a record for every enabled
\* metadata action.
C10_UnsupportedIsARecord ==
    \A r \in Runs :
        (pc[r] # "none" /\ Unsupported(Req(r))) =>
            /\ UnsupportedRecords(local[r].results)
            /\ UnsupportedRecords(migration_jobs[r[1]].results)
            /\ \A k \in 1..Len(net[r]) : net[r][k].op # "rest"
            /\ exc[r].at \notin MetadataKeys
            /\ ended[r].status = "completed" =>
                  \A key \in MetadataKeys :
                      Enabled(Req(r).actions, key) =>
                          key \in DOMAIN migration_jobs[r[1]].results
            /\ pc[r] = "complete" =>
                  \A key \in MetadataKeys :
                      Enabled(Req(r).actions, key) => key \in DOMAIN local[r].results

\* a job from github to gitea with the three metadata flags set ended
\* 'completed' with three 'unsupported' records
C10_Witness ==
    /\ ended[<< OneJob, 1 >>].status = "completed"
    /\ args[OneJob].dest_type = "gitea"
    /\ args[OneJob].source_type = "github"
    /\ MetadataKeys \subseteq DOMAIN migration_jobs[OneJob].results
    /\ \A key \in MetadataKeys :
          migration_jobs[OneJob].results[key].status = "unsupported"

\* C11: get_status returns, for a known id, a copy of the record as it was
\* at one instant: later updates do not change the returned value, and the
\* encoded body is that record; for an unknown id it returns
\* {status: 'not_found'} and the store has no entry for the id. As stated it
\* fails: the handler returns the stored dict itself, which _update_job
\* mutates in place.
C11_StatusIsACopy ==
    /\ response.kind = "record" =>
          /\ returned_value(response) = response.at_return
          /\ Encoded(response) =>
                \A key \in DOMAIN response.body : response.body[key] = response.at_return[key]
    /\ response.kind = "not_found" =>
          /\ response.body = [ status |-> "not_found" ]
          /\ UnknownId \notin DOMAIN migration_jobs

C13_LastFireOutcome ==
    \A job_id \in SchedIds :
        (fires[job_id] >= 1 /\ Running(job_id) = { }) =>
            /\ \A k \in 1..fires[job_id] : ended[<< job_id, k >>].status \in Terminal
            /\ migration_jobs[job_id].status = ended[<< job_id, fires[job_id] >>].status
            /\ migration_jobs[job_id].error # None
                  <=> ended[<< job_id, fires[job_id] >>].status = "failed"

\* the positions from which an invocation clones into, pushes from or
\* removes its temp directory
UsesDir == { "clone", "remote", "push", "specific", "tags", "finally" }

C15_NoRegistrationBelowOne ==
    /\ \A job_id \in DOMAIN scheduler_jobs : scheduler_jobs[job_id] >= 1
    /\ \A job_id \in SchedIds, interval_minutes \in ApiIntervals :
          interval_minutes < 1 =>
              ~ENABLED run_scheduled_sync(job_id, GithubToGitlab(UrlGit, DefaultActions),
                                          interval_minutes)
    /\ response.kind = "rejected" => response.interval_minutes < 1

\* a request with interval 0 has been rejected and nothing is registered
C15_Witness ==
    /\ response.kind = "rejected"
    /\ response.interval_minutes = 0
    /\ scheduler_jobs = << >>
    /\ SchedIds \cap DOMAIN migration_jobs = { }

\* the applied function is one of the paginated listings
Paged == fn_in.fn \in PageLoops \cup { "_bitbucket_paginated_get" }

\* C16: every paginated listing issues at most 10 page requests and then
\* stops, whatever the provider keeps returning.
C16_AtMostTenPages ==
    (Paged /\ fn_out.applied) =>
        /\ fn_out.paged.requests <= 10
        /\ fn_out.paged.requests >= 1
        /\ (fn_in.provider.full_pages < 10 /\ ~fn_out.paged.raised)
              => fn_out.paged.requests = fn_in.provider.full_pages + 1

\* a cursor chain that never ends was followed for ten requests
C16_Witness ==
    /\ fn_in.fn = "_bitbucket_paginated_get"
    /\ fn_in.provider.full_pages > 10
    /\ fn_out.applied
    /\ fn_out.paged.requests = 10
    /\ ~fn_out.paged.raised

\* the credentials of an auth URL: the text between "https://" and the
\* first "@"
CredentialPart(auth_url) ==
    SubSeq(auth_url, Len(HTTPS) + 1, FindFirst(auth_url, << "@" >>) - 1)

\* the halves of a user:pass token
UserHalf(token) == SubSeq(token, 1, FindFirst(token, << ":" >>) - 1)
PassHalf(token) == SubSeq(token, FindFirst(token, << ":" >>) + 1, Len(token))

\* C17: for github and gitlab the redacted auth URL equals the URL shaped
\* with the token '***'; for bitbucket with a user:pass token neither half
\* is left in the credentials of the redacted URL. As stated it fails:
\* get_auth_url percent-encodes the token (so '***' is shaped as
\* '%2A%2A%2A', and a token with a reserved character appears encoded),
\* while _redact_sensitive looks for the raw token.
C17_RedactedIsShapedWithStars ==
    (fn_in.fn = "_redact_sensitive" /\ fn_out.applied) =>
        IF fn_in.provider \in { "github", "gitlab" }
        THEN fn_out.redacted = get_auth_url(fn_in.url, Stars, fn_in.provider)
        ELSE Contains(fn_in.token, << ":" >>) =>
                /\ ~Contains(CredentialPart(fn_out.redacted), UserHalf(fn_in.token))
                /\ ~Contains(CredentialPart(fn_out.redacted), PassHalf(fn_in.token))

\* a create payload has been normalised
RoundTripped ==
    /\ fn_in.fn \in { "_normalize_issue_from_source", "_normalize_pr_from_source" }
    /\ fn_out.applied

\* C18 as stated: normalizing the payload that the create function of a
\* provider sends for x yields x again on every field of the normalized
\* shape. It fails: the create payloads carry no state (and no draft outside
\* github), carry labels in the form the destination API takes, and the
\* github pull request payload has head and base as strings.
C18_RoundTrip ==
    RoundTripped =>
        /\ ~fn_out.normalized.raised
        /\ \A field \in DOMAIN fn_in.item : fn_out.normalized[field] = fn_in.item[field]

\* C18 amended: normalizing the create payload yields x again on title and
\* description for issues of the three providers and on title, description,
\* source_branch and target_branch for gitlab and bitbucket pull requests;
\* state comes back 'open' and draft false whatever x holds, labels come
\* back empty (github, bitbucket) or as the joined string (gitlab), and
\* normalizing the github pull request payload raises.
C18_RoundTripOnSentFields ==
    RoundTripped =>
        IF fn_in.fn = "_normalize_pr_from_source" /\ fn_in.provider = "github"
        THEN fn_out.normalized.raised
        ELSE /\ ~fn_out.normalized.raised
             /\ fn_out.normalized.title = fn_in.item.title
             /\ fn_out.normalized.description = fn_in.item.description
             /\ fn_out.normalized.state = "open"
             /\ fn_in.fn = "_normalize_pr_from_source" =>
                   /\ fn_out.normalized.source_branch = fn_in.item.source_branch
                   /\ fn_out.normalized.target_branch = fn_in.item.target_branch
                   /\ fn_out.normalized.draft = FALSE
             /\ fn_in.fn = "_normalize_issue_from_source" =>
                   fn_out.normalized.labels =
                       IF fn_in.provider = "gitlab"
                       THEN Joined(fn_in.item.labels.items)
                       ELSE PyList(<< >>)

\* a closed draft merge request came back open, not a draft, with its
\* title and branches
C18_Witness ==
    /\ fn_in.fn = "_normalize_pr_from_source"
    /\ fn_in.provider = "gitlab"
    /\ fn_in.item.state = "closed"
    /\ fn_in.item.draft
    /\ fn_out.applied
    /\ fn_out.normalized.state = "open"
    /\ fn_out.normalized.source_branch = "feat"

\* the trimmed text of the strings of a list up to position i
TrimmedUpTo(value, i) ==
    { strip(value[k].text) : k \in { k \in 1..i : value[k].type = "str" } }

\* the position of the first entry of a list that trims to a branch
FirstOccurrence(value, branch) ==
    CHOOSE k \in 1..Len(value) :
        /\ branch \in TrimmedUpTo(value, k)
        /\ branch \notin TrimmedUpTo(value, k - 1)

\* C19: normalize_branches returns the trimmed, non-empty entries of its
\* input list without duplicates and in the order of first occurrence: the
\* output has no duplicates, no empty and no whitespace-padded entry, and
\* holds exactly the distinct trimmed non-empty input strings.
C19_TrimmedDistinctInOrder ==
    (fn_in.fn = "normalize_branches" /\ fn_out.applied) =>
        LET value == fn_in.value
            cleaned == fn_out.cleaned
        IN  /\ \A i, j \in 1..Len(cleaned) : i # j => cleaned[i] # cleaned[j]
            /\ \A i \in 1..Len(cleaned) :
                  /\ cleaned[i] # << >>
                  /\ Head(cleaned[i]) \notin Whitespace
                  /\ cleaned[i][Len(cleaned[i])] \notin Whitespace
            /\ { cleaned[i] : i \in 1..Len(cleaned) }
                  = TrimmedUpTo(value, Len(value)) \ { << >> }
            /\ \A i, j \in 1..Len(cleaned) :
                  i < j => FirstOccurrence(value, cleaned[i])
                             < FirstOccurrence(value, cleaned[j])

\* a list with a padded duplicate and a second branch was cleaned
C19_Witness ==
    /\ fn_in.fn = "normalize_branches"
    /\ fn_in.value = << PyStr(<< " ", "a" >>), PyStr(<< "b" >>), PyStr(<< "a", " " >>) >>
    /\ fn_out.applied
    /\ fn_out.cleaned = << << "a" >>, << "b" >> >>

\* rev-parse --verify fails for a selective branch in this step: the only
\* step of the loop that moves on without issuing a push
RevParseFails(r) ==
    /\ pc[r] = "specific"
    /\ net'[r] = net[r]
    /\ local'[r] # local[r]

\* an exception leaves perform_migration in this step
Leaves(r) == Ends(r) /\ ended'[r].status = "raised"

\* the except clauses write the record in this step
Handles(r) == pc[r] = "except" /\ pc'[r] # "except"

\* C20 as stated: a failure of the version-control tool (clone, remote,
\* rev-parse --verify, push) ends the job 'failed' with an error that begins
\* with 'Git command failed:', and every other exception ends the job
\* 'failed' with the redacted message without the prefix. It fails: an
\* exception raised before the try leaves the job 'processing', and a
\* failing rev-parse --verify is caught inside the loop.
C20_EveryFailureEndsFailed ==
    [][\A r \in Runs :
        /\ Handles(r) =>
              /\ migration_jobs'[r[1]].status = "failed"
              /\ migration_jobs'[r[1]].error # None
              /\ exc[r].kind = "git"
                    <=> StartsAt(migration_jobs'[r[1]].error[1], 1, GitFailedPrefix)
        /\ Leaves(r) => migration_jobs'[r[1]].status = "failed"
        /\ RevParseFails(r) => pc'[r] = "except" /\ exc'[r].kind = "git"]_vars

\* the entries of a list that are in a set, in the order of the list
RECURSIVE Filter(_, _)
Filter(list, S) ==
    IF list = << >> THEN << >>
    ELSE (IF Head(list) \in S THEN << Head(list) >> ELSE << >>) \o Filter(Tail(list), S)

\* the selective branches an invocation has issued a push for: the ones
\* that passed rev-parse --verify
Verified(r) ==
    { net[r][k].what : k \in { k \in 1..Len(net[r]) : net[r][k].op = "push" } }
        \cap { Req(r).actions.specific_branches[k] :
                 k \in 1..Len(Req(r).actions.specific_branches) }

\* the pushed and the missing list of a results mapping; an entry that is
\* not there stands for the empty list
PushedOf(results) ==
    IF "specific_branches" \in DOMAIN results THEN results.specific_branches.pushed
    ELSE << >>

MissingOf(results) ==
    IF "specific_branches_missing" \in DOMAIN results
    THEN results.specific_branches_missing
    ELSE << >>

\* the results of a completed selective job partition specific_branches
Partitioned(r) ==
    (/\ pc[r] = "done"
     /\ ended[r].status = "completed"
     /\ ~Req(r).actions.migrate_repo
     /\ Req(r).actions.specific_branches # << >>) =>
        LET branches == Req(r).actions.specific_branches
            all == { branches[k] : k \in 1..Len(branches) }
            results == migration_jobs[r[1]].results
            pushed == PushedOf(results)
            missing == MissingOf(results)
        IN  /\ pushed = Filter(branches, Verified(r))
            /\ missing = Filter(branches, all \ Verified(r))
            /\ { pushed[k] : k \in 1..Len(pushed) }
                  \cap { missing[k] : k \in 1..Len(missing) } = { }
            /\ { pushed[k] : k \in 1..Len(pushed) }
                  \cup { missing[k] : k \in 1..Len(missing) } = all
            /\ Len(pushed) + Len(missing) = Len(branches)

\* the push of a verified branch fails in this step
BranchPushFails(r) ==
    /\ pc[r] = "specific"
    /\ net'[r] # net[r]
    /\ pc'[r] = "except"

\* C21: for a completed job with migrate_repo false and a non-empty
\* specific_branches list, pushed holds exactly the branches that passed
\* rev-parse --verify and missing exactly those that failed it, both in
\* request order, disjoint and together the whole list; a failing push of a
\* verified branch raises a git failure and adds the branch to neither list.
C21_PushedMissingPartition ==
    [][\A r \in { << OneJob, 1 >> } :
        /\ Partitioned(r)'
        /\ BranchPushFails(r) =>
              /\ exc'[r].kind = "git"
              /\ local'[r].pushed = local[r].pushed
              /\ local'[r].missing = local[r].missing
              /\ local'[r].results = local[r].results
        /\ (Handles(r) /\ exc[r].at = "specific") =>
              /\ migration_jobs'[r[1]].status = "failed"
              /\ migration_jobs'[r[1]].results = << >>]_vars

\* a completed selective job with one branch pushed and one missing
C21_Witness ==
    /\ pc[<< OneJob, 1 >>] = "done"
    /\ ended[<< OneJob, 1 >>].status = "completed"
    /\ ~args[OneJob].actions.migrate_repo
    /\ args[OneJob].actions.specific_branches = << "main", "missing" >>
    /\ PushedOf(migration_jobs[OneJob].results) = << "missing" >>
    /\ MissingOf(migration_jobs[OneJob].results) = << "main" >>

\* the pushes an invocation has issued, in the order it issued them
PushLog(r) ==
    LET pushes == SelectSeq(net[r], LAMBDA op : op.op = "push")
    IN  [ k \in 1..Len(pushes) |-> pushes[k].what ]

\* the transport step of an invocation is over without an exception
TransportDone(r) ==
    pc[r] \in { "issues", "prs", "users", "complete" }

\* the pushes of the selective plan in the order of the code, for a choice
\* of verified branches
SelectivePlan(actions, verified) ==
    (IF actions.migrate_branches THEN << "refs/heads/*" >> ELSE << >>)
        \o Filter(actions.specific_branches, verified)
        \o (IF actions.migrate_tags THEN << "refs/tags/*" >> ELSE << >>)

\* one list starts another
IsPrefix(short, long) ==
    /\ Len(short) <= Len(long)
    /\ short = SubSeq(long, 1, Len(short))

\* C22: with migrate_repo true the transport step issues exactly one push,
\* push --mirror, and never enters the selective branch or tag processing,
\* whatever the other ref-level flags say; with migrate_repo false the
\* enabled pushes are issued in the order all-branches, specific branches in
\* list order, tags, and results.repository is 'skipped' exactly when none of
\* the three is enabled.
C22_MirrorBypassesSelective ==
    \A r \in { << OneJob, 1 >> } :
        pc[r] # "none" =>
            LET actions == Req(r).actions
                results == local[r].results
            IN  IF actions.migrate_repo
                THEN /\ IsPrefix(PushLog(r), << "--mirror" >>)
                     /\ pc[r] \notin { "specific", "tags" }
                     /\ local[r].pushed = << >> /\ local[r].missing = << >>
                     /\ TransportDone(r) =>
                           /\ PushLog(r) = << "--mirror" >>
                           /\ results.repository = "success"
                           /\ DOMAIN results \cap { "branches", "specific_branches",
                                   "specific_branches_missing", "tags" } = { }
                ELSE /\ IsPrefix(PushLog(r), SelectivePlan(actions, Verified(r)))
                     /\ TransportDone(r) =>
                           /\ PushLog(r) = SelectivePlan(actions, Verified(r))
                           /\ "repository" \in DOMAIN results <=>
                                 ~(actions.migrate_branches
                                   \/ actions.specific_branches # << >>
                                   \/ actions.migrate_tags)
                           /\ "repository" \in DOMAIN results =>
                                 /\ results.repository = "skipped"
                                 /\ PushLog(r) = << >>

\* a mirror job whose request also sets every selective flag has finished
\* its transport step
C22_Witness ==
    /\ pc[<< OneJob, 1 >>] = "complete"
    /\ args[OneJob].actions.migrate_repo
    /\ args[OneJob].actions.migrate_branches
    /\ args[OneJob].actions.migrate_tags
    /\ args[OneJob].actions.specific_branches = << "main", "missing" >>
    /\ PushLog(<< OneJob, 1 >>) = << "--mirror" >>

\* the positions of the transport step
TransportPositions == { "clone", "remote", "push", "specific", "tags" }

\* the place of a metadata action in the order issues, prs, users
MetadataRank(key) ==
    CASE key = "issues" -> 1
      [] key = "prs" -> 2
      [] key = "users" -> 3

\* the log of an invocation keeps the phases apart: the clone comes first,
\* every REST call comes after every push, the metadata actions come in the
\* order issues, prs, users, and a REST call is there only when every
\* enabled push has been issued
PhasesInOrder(r) ==
    LET log == net[r]
        actions == Req(r).actions
        rests == { k \in 1..Len(log) : log[k].op = "rest" }
    IN  /\ \A k \in 1..Len(log) : log[k].op = "clone" <=> k = 1
        /\ \A i \in rests, j \in 1..Len(log) :
              log[j].op \in { "clone", "push" } => j < i
        /\ \A i, j \in rests : i < j => MetadataRank(log[i].what) < MetadataRank(log[j].what)
        /\ \A i \in rests : Enabled(actions, log[i].what)
        /\ rests # { } =>
              PushLog(r) = IF actions.migrate_repo THEN << "--mirror" >>
                           ELSE SelectivePlan(actions, Verified(r))

\* C23: within one invocation no REST call of a metadata action is issued
\* before the clone and every enabled push have finished, the metadata
\* actions run in the order issues, prs, users, and after an exception (one
\* of the transport step included) no further call is issued, so a failed
\* transport step leaves no metadata call at all.
C23_PhasesSequential ==
    [][\A r \in { << OneJob, 1 >> } :
        /\ pc'[r] # "none" => PhasesInOrder(r)'
        /\ pc[r] \in { "except", "finally", "done" } => net'[r] = net[r]
        /\ (pc'[r] = "except" /\ exc'[r].at \in TransportPositions) =>
              \A k \in 1..Len(net'[r]) : net'[r][k].op # "rest"]_vars

\* an invocation has cloned, pushed the mirror and run the three metadata
\* actions
C23_Witness ==
    /\ pc[<< OneJob, 1 >>] = "complete"
    /\ Len(net[<< OneJob, 1 >>]) = 5
    /\ net[<< OneJob, 1 >>][1].op = "clone"
    /\ net[<< OneJob, 1 >>][2].op = "push"
    /\ \A k \in 3..5 : net[<< OneJob, 1 >>][k].op = "rest"
    /\ net[<< OneJob, 1 >>][3].what = "issues"
    /\ net[<< OneJob, 1 >>][4].what = "prs"
    /\ net[<< OneJob, 1 >>][5].what = "users"

\* a create function has been applied
Created == fn_in.fn = "_create" /\ fn_out.applied

\* the close call of a create function is issued only for a closed item,
\* only as the second call after a create call that succeeded, and
\* addressed to the identifier of the create answer
CloseProtocol ==
    LET calls == fn_out.made.calls
        provider == fn_in.destination.provider
        identifier == CASE provider = "github" -> "number"
                        [] provider = "gitlab" -> "iid"
                        [] provider = "bitbucket" -> "id"
    IN  /\ Len(calls) <= 2
        /\ Len(calls) >= 1 => calls[1].call = "create"
        /\ Len(calls) = 2 =>
              /\ calls[2].call = "close"
              /\ fn_in.item.state = "closed"
              /\ fn_in.answer.create = "ok"
              /\ identifier \in DOMAIN fn_in.answer.created
              /\ calls[2].target = fn_in.answer.created[identifier]

\* C24 as stated: the close call is issued only for a closed item, only
\* after a successful create call and addressed to the created identifier,
\* and an open item produces exactly one create call and no close call. It
\* fails on the last part: when the request URL cannot be built from the
\* destination context the function raises before any call.
C24_CloseAfterCreate ==
    Created =>
        /\ CloseProtocol
        /\ fn_in.item.state = "open" =>
              /\ Len(fn_out.made.calls) = 1
              /\ fn_out.made.calls[1].call = "create"

\* C24 amended: the close call is issued only for a closed item, only after
\* a successful create call and addressed to the created identifier; an open
\* item produces no close call and at most one create call, exactly one
\* when the request URL can be built from the destination context and none
\* when building it raises; a closed item is closed whenever the create
\* answer carries the identifier.
C24_CloseAfterCreateWhenUrlBuilt ==
    Created =>
        /\ CloseProtocol
        /\ fn_in.item.state = "open" =>
              Len(fn_out.made.calls) = IF adapter_url_ok(fn_in.destination) THEN 1 ELSE 0
        /\ ~adapter_url_ok(fn_in.destination) => fn_out.made.raised
        /\ ( /\ fn_in.item.state = "closed"
             /\ adapter_url_ok(fn_in.destination)
             /\ fn_in.answer.create = "ok"
             /\ fn_in.answer.created # << >> ) => Len(fn_out.made.calls) = 2

\* a closed merge request was created on gitlab and closed by its iid
C24_Witness ==
    /\ Created
    /\ fn_in.kind = "pr"
    /\ fn_in.destination.provider = "gitlab"
    /\ fn_in.item.state = "closed"
    /\ fn_in.answer.created = [ id |-> 1, number |-> 2, iid |-> 3 ]
    /\ Len(fn_out.made.calls) = 2
    /\ fn_out.made.calls[2].target = 3
    /\ fn_out.made.calls[2].method = "PUT"

\* C25 as stated: whatever the provider-side state field of a source record
\* carries, the state of the normalized issue and of the normalized pull
\* request is 'open' or 'closed'. It fails: the github branches return the
\* source state as it is, and the gitlab issue branch returns every state
\* but 'opened' as it is.
C25_StateIsOpenOrClosed ==
    (fn_in.fn \in { "issue_state", "pr_state" } /\ fn_out.applied
        /\ ~fn_out.normalized.raised) =>
        fn_out.normalized.state \in { "open", "closed" }

\* a metadata function has returned a 'completed' record
ReturnedCompleted ==
    /\ fn_in.fn \in { "migrate_issues", "migrate_pull_requests" }
    /\ fn_out.applied
    /\ ~fn_out.raised
    /\ fn_out.result.status = "completed"

\* the listed pull requests whose normalized source or target branch is
\* empty (no name, or none at all)
EmptyBranchItems ==
    { i \in 1..Len(fn_in.listing.items) :
        LET normalized == normalize_pr_from_source(fn_in.source.provider,
                                                   fn_in.listing.items[i])
        IN  \/ normalized.source_branch \in { "", Null }
            \/ normalized.target_branch \in { "", Null } }

\* the create calls among the REST calls of the applied function
CreateCalls ==
    Len(SelectSeq(fn_out.calls, LAMBDA call : call = "create"))

\* C26: a 'completed' record of migrate_issues or migrate_pull_requests
\* accounts for every listed item exactly once: created + failed =
\* source_count for issues, created + skipped + failed = source_count for
\* pull requests, skipped counts exactly the pull requests whose normalized
\* source or target branch is empty, and no create call is issued for them.
C26_CountersAccountForEveryItem ==
    ReturnedCompleted =>
        LET result == fn_out.result
            listed == Len(fn_in.listing.items)
        IN  /\ result.source_count = listed
            /\ result.created >= 0 /\ result.failed >= 0
            /\ IF fn_in.fn = "migrate_issues"
               THEN /\ result.created + result.failed = listed
                    /\ "skipped" \notin DOMAIN result
                    /\ fn_out.attempted = listed
               ELSE /\ result.created + result.skipped + result.failed = listed
                    /\ result.skipped = Cardinality(EmptyBranchItems)
                    /\ fn_out.attempted = listed - Cardinality(EmptyBranchItems)
            /\ CreateCalls <= fn_out.attempted
            /\ adapter_url_ok(fn_in.destination) => CreateCalls = fn_out.attempted
            /\ result.created <= CreateCalls

\* a batch of two pull requests came back with one created and one skipped
C26_Witness ==
    /\ ReturnedCompleted
    /\ fn_in.fn = "migrate_pull_requests"
    /\ fn_out.result.source_count = 2
    /\ fn_out.result.created = 1
    /\ fn_out.result.skipped = 1
    /\ fn_out.result.failed = 0
    /\ CreateCalls = 1

\* migrate_users has returned a 'completed' record
UsersCompleted ==
    /\ fn_in.fn = "migrate_users"
    /\ fn_out.applied
    /\ ~fn_out.raised
    /\ fn_out.result.status = "completed"

\* the destination has the user: a bitbucket destination lists it, another
\* destination answers the existence check with yes
ExistsAtDestination(username) ==
    IF fn_in.destination.provider = "bitbucket"
    THEN \E k \in 1..Len(fn_in.dest_listing.users) : fn_in.dest_listing.users[k] = username
    ELSE fn_in.checks[username] = "exists"

\* the first at most twenty entries of a list
FirstTwenty(list) == SubSeq(list, 1, IF Len(list) < 20 THEN Len(list) ELSE 20)

\* C27: a 'completed' record of migrate_users places every source username
\* in exactly one of mapped and unmapped (mapped_count + unmapped_count =
\* source_count), a username whose existence check raises is unmapped, the
\* samples are the first at most 20 entries of the two lists, and no
\* request other than listings and existence checks is issued.
C27_EveryUserMappedOrUnmapped ==
    UsersCompleted =>
        LET result == fn_out.result
            users == fn_in.listing.users
            mapped == SelectSeq(users, ExistsAtDestination)
            unmapped == SelectSeq(users, LAMBDA username : ~ExistsAtDestination(username))
        IN  /\ result.source_count = Len(users)
            /\ result.mapped_count + result.unmapped_count = result.source_count
            /\ result.mapped_count = Len(mapped)
            /\ result.unmapped_count = Len(unmapped)
            /\ result.mapped_sample = FirstTwenty(mapped)
            /\ result.unmapped_sample = FirstTwenty(unmapped)
            /\ \A k \in 1..Len(users) :
                  (fn_in.destination.provider # "bitbucket"
                     /\ fn_in.checks[users[k]] = "raises" /\ k <= 20) =>
                      /\ \E i \in 1..Len(result.unmapped_sample) :
                            result.unmapped_sample[i] = users[k]
                      /\ \A i \in 1..Len(result.mapped_sample) :
                            result.mapped_sample[i] # users[k]
            /\ \A k \in 1..Len(fn_out.calls) : fn_out.calls[k] \in { "list", "check" }

\* twenty-one users exist at the destination: the sample holds the first
\* twenty of them
C27_Witness ==
    /\ UsersCompleted
    /\ fn_out.result.source_count = 21
    /\ fn_out.result.mapped_count = 21
    /\ fn_out.result.unmapped_count = 0
    /\ Len(fn_out.result.mapped_sample) = 20
    /\ fn_out.result.mapped_sample[20] = 20

\* an invocation writes 'completed' in this step
Completes(r) == pc[r] = "complete" /\ pc'[r] # "complete"

\* C28: a job that ends 'failed' has an empty results mapping, whatever
\* steps of the failing invocation (and of earlier invocations of the job)
\* succeeded before the failure, and the results of a 'completed' job are
\* exactly the mapping built by the invocation that completed.
C28_FailedJobHasNoResults ==
    [][/\ \A job_id \in DOMAIN migration_jobs' :
             migration_jobs'[job_id].status = "failed" =>
                 migration_jobs'[job_id].results = << >>
       /\ \A r \in Runs :
             /\ Handles(r) =>
                   /\ migration_jobs'[r[1]].status = "failed"
                   /\ migration_jobs'[r[1]].results = << >>
             /\ Completes(r) =>
                   /\ migration_jobs'[r[1]].status = "completed"
                   /\ migration_jobs'[r[1]].results = local[r].results]_vars

\* the all-branches push of a selective job succeeded, a later push failed,
\* and the failed job records nothing
C28_Witness ==
    /\ ended[<< OneJob, 1 >>].status = "failed"
    /\ ~args[OneJob].actions.migrate_repo
    /\ Len(PushLog(<< OneJob, 1 >>)) >= 2
    /\ PushLog(<< OneJob, 1 >>)[1] = "refs/heads/*"
    /\ migration_jobs[OneJob].status = "failed"
    /\ migration_jobs[OneJob].results = << >>

====
